---------------------------- MODULE Spec2Model ----------------------------
(***************************************************************************)
(* AQI forecasting core of the backend: the forecast strategies            *)
(* (forecasting/models/*.py), the orchestrator                             *)
(* (forecasting/forecasting_service.py) and the remote-or-fallback adapter *)
(* (services/timegpt_service.py), with the AQI scale (services/aqi.py),    *)
(* and the notification layer around it: the Telegram service              *)
(* (services/telegram_service.py) and the subscription endpoints           *)
(* (routers/alerts.py).                                                    *)
(*                                                                         *)
(* The forecast services and the AQI calculator hold no state between      *)
(* calls.  For them a state of the model is the last call observed: its    *)
(* arguments, what it read from its environment (today's weekday, the      *)
(* random source, the remote answer, sub-models raising) and what it       *)
(* returned.  The notification layer keeps the Subscriber and AlertLog     *)
(* tables: its behaviours are sequences of subscription requests, ended by *)
(* at most one alert check.  Python floats are modelled by exact           *)
(* rationals, round() by round-half-to-even; where the exact value is a tie *)
(* the float computation may land on either side of it.                    *)
(***************************************************************************)
EXTENDS Integers, Sequences, FiniteSets, TLC

VARIABLES
    op,               \* which entry point was called last ("none" before any call)
    method,           \* strategy key of the call ("" for the adapter)
    historical_data,  \* argument: sequence of points, each <<>> (aqi absent) or <<aqi>>
    forecast_days,    \* argument: horizon
    weekday,          \* date.today().weekday() as read by the call
    faults,           \* models whose forecast() raises during the call
    api_key,          \* TimeGPTService.api_key is set
    remote,           \* what the remote step of the adapter met
    remote_calls,     \* number of client.post calls issued by the call
    predictions,      \* returned prediction list
    metadata,         \* returned metadata (orchestrator)
    used_fallback,    \* returned flag (adapter)
    raised,           \* an exception left the entry point
    invoked,          \* the models whose forecast() the call invoked
    path,             \* the adapter's path: "remote", "enhanced" or "simple"
    pollutant,        \* argument of calculate_aqi
    concentration,    \* argument of calculate_aqi: <<>> (None) or <<c>>
    aqi_out,          \* returned by calculate_aqi: <<>> (None) or <<aqi>>
    aqi_in,           \* argument of get_aqi_category
    category_out,     \* returned by get_aqi_category
    measurements,     \* argument of calculate_daily_aqi: pollutant key -> concentration
    daily,            \* returned by calculate_daily_aqi
    bot_token,        \* TelegramService.bot_token is set
    requests,         \* number of client.post calls issued by send_message so far
    response,         \* what the last of them met
    send_result,      \* returned by send_message: <<>> while it runs, else <<bool>>
    subscribers,      \* the Subscriber table, rows in order of insertion
    last_request,     \* chat_id -> the last subscription request made for it
    alert_log,        \* the AlertLog table, rows in order of insertion
    alert_predictions, \* argument of check_and_send_alerts
    location,         \* arguments lat, lon of check_and_send_alerts
    stats             \* returned by check_and_send_alerts: <<>> or <<record>>

\* what the calls of the AQI calculator leave behind
aqi_vars == <<pollutant, concentration, aqi_out, aqi_in, category_out, measurements, daily>>

\* what the forecast calls leave behind
forecast_vars == <<method, historical_data, forecast_days, weekday, faults, api_key,
                   remote, remote_calls, predictions, metadata, used_fallback, raised,
                   invoked, path>>

\* the state of one send_message call
send_vars == <<requests, response, send_result>>

\* the tables and what the subscription endpoints and the alert check leave behind
alert_vars == <<subscribers, last_request, alert_log, alert_predictions, location, stats>>

notify_vars == <<bot_token, send_vars, alert_vars>>

vars == <<op, forecast_vars, aqi_vars, notify_vars>>

---------------------------------------------------------------------------
(* Bounds of the model. *)

\* distance between the sampled concentrations, in tenths of the unit
ConcentrationStride == 25

\* longest historical_data
MaxLen == 15
\* longest history lying on a line, and the horizon asked of the linear model on it
MaxLineLen == 30
MaxLineHorizon == 7
\* requests of one send_message call the model follows
MaxRequests == 4
\* largest forecast_days
MaxHorizon == 2
\* random.uniform(-0.1, 0.1) is sampled at k / (10 * JitterGrid), k in -JitterGrid..JitterGrid
JitterGrid == 1
\* random.randint(-15, 25) is sampled every RandintStride values, both ends included
RandintStride == 20

---------------------------------------------------------------------------
(* Exact arithmetic standing for Python / numpy floats. *)

Abs(x) == IF x < 0 THEN -x ELSE x

RECURSIVE GCD(_, _)
GCD(a, b) == IF b = 0 THEN a ELSE GCD(b, a % b)

\* a rational number n/d, d > 0, in lowest terms
Rat(n, d) ==
    LET s == IF d < 0 THEN -1 ELSE 1
        g == GCD(Abs(n), Abs(d))
    IN  [n |-> (s * n) \div g, d |-> (s * d) \div g]

RInt(k) == [n |-> k, d |-> 1]

RAdd(a, b) ==
    LET g == GCD(a.d, b.d)
    IN  Rat(a.n * (b.d \div g) + b.n * (a.d \div g), (a.d \div g) * b.d)

RNeg(a) == [n |-> -a.n, d |-> a.d]

RSub(a, b) == RAdd(a, RNeg(b))

RMul(a, b) ==
    LET g1 == GCD(Abs(a.n), b.d)
        g2 == GCD(Abs(b.n), a.d)
    IN  Rat((a.n \div g1) * (b.n \div g2), (a.d \div g2) * (b.d \div g1))

RDiv(a, b) == RMul(a, IF b.n < 0 THEN [n |-> -b.d, d |-> -b.n] ELSE [n |-> b.d, d |-> b.n])

RLess(a, b) == a.n * b.d < b.n * a.d

RMax(a, b) == IF RLess(a, b) THEN b ELSE a

\* Python round(x) with one argument: nearest integer, ties to the even one
round(x) ==
    LET f == x.n \div x.d
        r == x.n - f * x.d
    IN  IF 2 * r < x.d THEN f
        ELSE IF 2 * r > x.d THEN f + 1
        ELSE IF f % 2 = 0 THEN f ELSE f + 1

\* clamp without its min(500, .)
clamp_low_only(v) == IF v < 0 THEN 0 ELSE v

\* max(0, min(500, v))
clamp(v) == IF v < 0 THEN 0 ELSE IF v > 500 THEN 500 ELSE v

\* sum() of a sequence of integers (exact, so the order of additions is free)
RECURSIVE SumSeq(_)
SumSeq(s) ==
    IF Len(s) = 0 THEN 0
    ELSE IF Len(s) = 1 THEN s[1]
    ELSE SumSeq(SubSeq(s, 1, Len(s) \div 2)) + SumSeq(SubSeq(s, Len(s) \div 2 + 1, Len(s)))

\* np.mean of a non-empty sequence of integers
mean(s) == Rat(SumSeq(s), Len(s))

\* sum() of a sequence of rationals
RECURSIVE RSumSeq(_)
RSumSeq(s) ==
    IF Len(s) = 0 THEN RInt(0)
    ELSE IF Len(s) = 1 THEN s[1]
    ELSE RAdd(RSumSeq(SubSeq(s, 1, Len(s) \div 2)),
              RSumSeq(SubSeq(s, Len(s) \div 2 + 1, Len(s))))

\* np.mean of a non-empty sequence of rationals
rmean(s) == RDiv(RSumSeq(s), RInt(Len(s)))

\* Python slices s[-k:], s[:k] and s[-2k:-k]
LastK(s, k) == IF Len(s) <= k THEN s ELSE SubSeq(s, Len(s) - k + 1, Len(s))
FirstK(s, k) == IF Len(s) <= k THEN s ELSE SubSeq(s, 1, k)
PrevK(s, k) == SubSeq(s, Len(s) - 2 * k + 1, Len(s) - k)

---------------------------------------------------------------------------
(* Exact decimal fractions i.f1f2f3... (i >= 0), for the smoothing          *)
(* recurrence, whose denominators grow by a factor 10 per point.           *)

DInt(k) == [i |-> k, f |-> <<>>]

Pad(f, k) == f \o [j \in 1..(k - Len(f)) |-> 0]

RECURSIVE MulDigits(_, _)
MulDigits(f, m) ==
    IF f = <<>> THEN [f |-> <<>>, c |-> 0]
    ELSE LET rest == MulDigits(Tail(f), m)
             v == Head(f) * m + rest.c
         IN  [f |-> <<v % 10>> \o rest.f, c |-> v \div 10]

DMul(a, m) == LET r == MulDigits(a.f, m) IN [i |-> a.i * m + r.c, f |-> r.f]

RECURSIVE AddDigits(_, _)
AddDigits(f, g) ==
    IF f = <<>> THEN [f |-> <<>>, c |-> 0]
    ELSE LET rest == AddDigits(Tail(f), Tail(g))
             v == Head(f) + Head(g) + rest.c
         IN  [f |-> <<v % 10>> \o rest.f, c |-> v \div 10]

DAdd(a, b) ==
    LET k == IF Len(a.f) > Len(b.f) THEN Len(a.f) ELSE Len(b.f)
        r == AddDigits(Pad(a.f, k), Pad(b.f, k))
    IN  [i |-> a.i + b.i + r.c, f |-> r.f]

RECURSIVE SubDigits(_, _)
SubDigits(f, g) ==
    IF f = <<>> THEN [f |-> <<>>, c |-> 0]
    ELSE LET rest == SubDigits(Tail(f), Tail(g))
             v == Head(f) - Head(g) - rest.c
         IN  [f |-> <<v % 10>> \o rest.f, c |-> IF v < 0 THEN 1 ELSE 0]

\* a - b for a >= b
DSub(a, b) ==
    LET k == IF Len(a.f) > Len(b.f) THEN Len(a.f) ELSE Len(b.f)
        r == SubDigits(Pad(a.f, k), Pad(b.f, k))
    IN  [i |-> a.i - b.i - r.c, f |-> r.f]

RECURSIVE DigitsLess(_, _)
DigitsLess(f, g) ==
    IF f = <<>> THEN FALSE
    ELSE IF Head(f) # Head(g) THEN Head(f) < Head(g)
    ELSE DigitsLess(Tail(f), Tail(g))

DLess(a, b) ==
    LET k == IF Len(a.f) > Len(b.f) THEN Len(a.f) ELSE Len(b.f)
    IN  IF a.i # b.i THEN a.i < b.i ELSE DigitsLess(Pad(a.f, k), Pad(b.f, k))

DDiv10(a) == [i |-> a.i \div 10, f |-> <<a.i % 10>> \o a.f]

\* Python round(x) of a decimal fraction x >= 0
DRound(a) ==
    IF a.f = <<>> \/ Head(a.f) < 5 THEN a.i
    ELSE IF Head(a.f) > 5 \/ \E j \in 2..Len(a.f) : a.f[j] # 0 THEN a.i + 1
    ELSE IF a.i % 2 = 0 THEN a.i ELSE a.i + 1

---------------------------------------------------------------------------
(* services/aqi.py *)

\* the thresholds compared with < instead of <=
get_aqi_category_exclusive(aqi) ==
    IF aqi < 50 THEN "Good"
    ELSE IF aqi < 100 THEN "Moderate"
    ELSE IF aqi < 150 THEN "Unhealthy for Sensitive Groups"
    ELSE IF aqi < 200 THEN "Unhealthy"
    ELSE IF aqi < 300 THEN "Very Unhealthy"
    ELSE "Hazardous"

\* AQICalculator.get_aqi_category
get_aqi_category(aqi) ==
    IF aqi <= 50 THEN "Good"
    ELSE IF aqi <= 100 THEN "Moderate"
    ELSE IF aqi <= 150 THEN "Unhealthy for Sensitive Groups"
    ELSE IF aqi <= 200 THEN "Unhealthy"
    ELSE IF aqi <= 300 THEN "Very Unhealthy"
    ELSE "Hazardous"

\* AQI_BREAKPOINTS: rows <<c_low, c_high, aqi_low, aqi_high>>, the concentrations
\* in tenths of the unit
AQI_BREAKPOINTS ==
    [pm25 |-> << <<0, 120, 0, 50>>, <<121, 354, 51, 100>>, <<355, 554, 101, 150>>,
                 <<555, 1504, 151, 200>>, <<1505, 2504, 201, 300>>,
                 <<2505, 5004, 301, 500>> >>,
     pm10 |-> << <<0, 540, 0, 50>>, <<550, 1540, 51, 100>>, <<1550, 2540, 101, 150>>,
                 <<2550, 3540, 151, 200>>, <<3550, 4240, 201, 300>>,
                 <<4250, 6040, 301, 500>> >>,
     no2 |-> << <<0, 530, 0, 50>>, <<540, 1000, 51, 100>>, <<1010, 3600, 101, 150>>,
                <<3610, 6490, 151, 200>>, <<6500, 12490, 201, 300>>,
                <<12500, 20490, 301, 500>> >>,
     o3 |-> << <<0, 540, 0, 50>>, <<550, 700, 51, 100>>, <<710, 850, 101, 150>>,
               <<860, 1050, 151, 200>>, <<1060, 2000, 201, 300>>,
               <<2010, 5000, 301, 500>> >>,
     so2 |-> << <<0, 350, 0, 50>>, <<360, 750, 51, 100>>, <<760, 1850, 101, 150>>,
                <<1860, 3040, 151, 200>>, <<3050, 6040, 201, 300>>,
                <<6050, 10040, 301, 500>> >>,
     co |-> << <<0, 44, 0, 50>>, <<45, 94, 51, 100>>, <<95, 124, 101, 150>>,
               <<125, 154, 151, 200>>, <<155, 304, 201, 300>>,
               <<305, 504, 301, 500>> >>]

\* str.lower() on the pollutant keys a call is made with
lower(p) ==
    CASE p = "PM25" -> "pm25"
      [] p = "Pm10" -> "pm10"
      [] p = "NO2" -> "no2"
      [] p = "INVALID" -> "invalid"
      [] OTHER -> p

\* c_low <= concentration <= c_high
in_row(row, c) ==
    /\ ~RLess(c, Rat(row[1], 10))
    /\ ~RLess(Rat(row[2], 10), c)

\* the interpolation without the rounding of line 97 (int() of the value)
interpolate_truncating(row, c) ==
    LET aqi == RAdd(RMul(RDiv(RInt(row[4] - row[3]), Rat(row[2] - row[1], 10)),
                         RSub(c, Rat(row[1], 10))),
                    RInt(row[3]))
    IN  aqi.n \div aqi.d

\* lines 96-97: round(((aqi_high - aqi_low) / (c_high - c_low)) * (c - c_low) + aqi_low)
interpolate(row, c) ==
    LET aqi == RAdd(RMul(RDiv(RInt(row[4] - row[3]), Rat(row[2] - row[1], 10)),
                         RSub(c, Rat(row[1], 10))),
                    RInt(row[3]))
    IN  round(aqi)

\* calculate_aqi looking the pollutant up as given, without lower()
calculate_aqi_case_sensitive(conc, p) ==
    IF conc = <<>> THEN <<>>
    ELSE IF RLess(conc[1], RInt(0)) THEN <<>>
    ELSE IF p \notin DOMAIN AQI_BREAKPOINTS THEN <<>>
    ELSE LET breakpoints == AQI_BREAKPOINTS[p]
             hits == {j \in 1..Len(breakpoints) : in_row(breakpoints[j], conc[1])}
             first == CHOOSE j \in hits : \A k \in hits : j <= k
         IN  IF hits = {} THEN <<500>> ELSE <<interpolate(breakpoints[first], conc[1])>>

\* AQICalculator.calculate_aqi: <<>> for None, <<aqi>> otherwise
calculate_aqi(conc, p) ==
    IF conc = <<>> THEN <<>>
    ELSE IF RLess(conc[1], RInt(0)) THEN <<>>
    ELSE IF lower(p) \notin DOMAIN AQI_BREAKPOINTS THEN <<>>
    ELSE LET breakpoints == AQI_BREAKPOINTS[lower(p)]
             hits == {j \in 1..Len(breakpoints) : in_row(breakpoints[j], conc[1])}
             first == CHOOSE j \in hits : \A k \in hits : j <= k
         IN  IF hits = {} THEN <<500>> ELSE <<interpolate(breakpoints[first], conc[1])>>

\* max() of a non-empty set of integers
MaxOf(S) == CHOOSE x \in S : \A y \in S : y <= x

\* the daily value taken as the smallest of the pollutants' values
calculate_daily_aqi_min(meas) ==
    LET valid == {k \in DOMAIN meas : calculate_aqi(meas[k], k) # <<>>}
        breakdown == [k \in valid |-> calculate_aqi(meas[k], k)[1]]
        daily_aqi == CHOOSE x \in {breakdown[k] : k \in valid} :
                        \A k \in valid : x <= breakdown[k]
    IN  IF valid = {}
        THEN [daily_aqi |-> <<>>, category |-> "Unknown", breakdown |-> <<>>]
        ELSE [daily_aqi |-> <<daily_aqi>>, category |-> get_aqi_category(daily_aqi),
              breakdown |-> breakdown]

\* AQICalculator.calculate_daily_aqi: (daily_aqi, category, breakdown)
calculate_daily_aqi(meas) ==
    LET valid == {k \in DOMAIN meas : calculate_aqi(meas[k], k) # <<>>}
        breakdown == [k \in valid |-> calculate_aqi(meas[k], k)[1]]
        daily_aqi == MaxOf({breakdown[k] : k \in valid})
    IN  IF valid = {}
        THEN [daily_aqi |-> <<>>, category |-> "Unknown", breakdown |-> <<>>]
        ELSE [daily_aqi |-> <<daily_aqi>>, category |-> get_aqi_category(daily_aqi),
              breakdown |-> breakdown]

---------------------------------------------------------------------------
(* forecasting/models/base_model.py and the parts every model repeats *)

\* a prediction dict without a "confidence" key
NoConfidence == [k \in {} |-> 0]

\* the dict a model appends for day index i (date = tomorrow + i)
Prediction(i, aqi) ==
    [date |-> i + 1, predicted_aqi |-> aqi, category |-> get_aqi_category(aqi),
     confidence |-> NoConfidence]

\* BaseForecastModel._prepare_data: the aqi values that are not None, in order
prepare_data(data) ==
    LET present == SelectSeq(data, LAMBDA point : point # <<>>)
    IN  [k \in 1..Len(present) |-> present[k][1]]

\* _default_forecast with another hard-coded label
model_default_forecast_good(days) ==
    [i \in 1..days |->
        [date |-> i, predicted_aqi |-> 75, category |-> "Good",
         confidence |-> NoConfidence]]

\* <Model>._default_forecast: 75 / "Moderate" for every day
model_default_forecast(days) ==
    [i \in 1..days |->
        [date |-> i, predicted_aqi |-> 75, category |-> "Moderate",
         confidence |-> NoConfidence]]

\* np.convolve(aqi_values, np.ones(window)/window, mode='valid')
convolve(aqi_values, window) ==
    [k \in 1..(Len(aqi_values) - window + 1) |->
        Rat(SumSeq(SubSeq(aqi_values, k, k + window - 1)), window)]

\* trend = (ma[-1] - ma[0]) / len(ma) if len(ma) > 1 else 0
ma_trend(ma) ==
    IF Len(ma) > 1 THEN RDiv(RSub(ma[Len(ma)], ma[1]), RInt(Len(ma))) ELSE RInt(0)

---------------------------------------------------------------------------
(* forecasting/models/linear_regression.py *)

\* forecast of LinearRegressionModel extrapolating from the last observed index
linear_forecast_from_last(data, days) ==
    LET aqi_values == prepare_data(data)
        n == Len(aqi_values)
        X_mean == mean([k \in 1..n |-> k - 1])
        y_mean == mean(aqi_values)
        numerator == RSumSeq([k \in 1..n |->
                        RMul(RSub(RInt(k - 1), X_mean), RSub(RInt(aqi_values[k]), y_mean))])
        denominator == RSumSeq([k \in 1..n |->
                        RMul(RSub(RInt(k - 1), X_mean), RSub(RInt(k - 1), X_mean))])
        slope == RDiv(numerator, denominator)
        intercept == RSub(y_mean, RMul(slope, X_mean))
    IN  IF n < 3 THEN model_default_forecast(days)
        ELSE IF denominator.n = 0 THEN model_default_forecast(days)
        ELSE [i \in 1..days |->
                Prediction(i - 1,
                    clamp(round(RAdd(RMul(slope, RInt(n - 1 + i - 1)), intercept))))]

\* LinearRegressionModel.forecast
linear_forecast(data, days) ==
    LET aqi_values == prepare_data(data)
        n == Len(aqi_values)
        X_mean == mean([k \in 1..n |-> k - 1])
        y_mean == mean(aqi_values)
        numerator == RSumSeq([k \in 1..n |->
                        RMul(RSub(RInt(k - 1), X_mean), RSub(RInt(aqi_values[k]), y_mean))])
        denominator == RSumSeq([k \in 1..n |->
                        RMul(RSub(RInt(k - 1), X_mean), RSub(RInt(k - 1), X_mean))])
        slope == RDiv(numerator, denominator)
        intercept == RSub(y_mean, RMul(slope, X_mean))
    IN  IF n < 3 THEN model_default_forecast(days)
        ELSE IF denominator.n = 0 THEN model_default_forecast(days)
        ELSE [i \in 1..days |->
                Prediction(i - 1,
                    clamp(round(RAdd(RMul(slope, RInt(n + i - 1)), intercept))))]

---------------------------------------------------------------------------
(* forecasting/models/moving_average.py *)

\* MovingAverageModel.__init__ default window
MA_WINDOW == 7

moving_average_forecast(data, days) ==
    LET aqi_values == prepare_data(data)
        n == Len(aqi_values)
        w0 == IF MA_WINDOW < n \div 2 THEN MA_WINDOW ELSE n \div 2
        window == IF w0 < 3 THEN 3 ELSE w0
        ma == convolve(aqi_values, window)
        trend == ma_trend(ma)
        last_ma == IF Len(ma) > 0 THEN ma[Len(ma)] ELSE mean(aqi_values)
    IN  IF n < 3 THEN model_default_forecast(days)
        ELSE [i \in 1..days |->
                Prediction(i - 1, clamp(round(RAdd(last_ma, RMul(trend, RInt(i))))))]

---------------------------------------------------------------------------
(* forecasting/models/exponential_smoothing.py *)

\* ExponentialSmoothingModel.__init__ default alpha = 0.3, in tenths
ALPHA_TENTHS == 3

\* smoothed[0] = x[0]; smoothed[i] = alpha * x[i] + (1 - alpha) * smoothed[i-1]
RECURSIVE smoothed(_)
smoothed(aqi_values) ==
    IF Len(aqi_values) = 1 THEN <<DInt(aqi_values[1])>>
    ELSE LET prev == smoothed(SubSeq(aqi_values, 1, Len(aqi_values) - 1))
             x == aqi_values[Len(aqi_values)]
         IN  Append(prev,
                DDiv10(DAdd(DInt(ALPHA_TENTHS * x), DMul(prev[Len(prev)], 10 - ALPHA_TENTHS))))

\* max(0, min(500, round(last_smoothed + trend * (i + 1)))), trend = s[-1] - s[-2]
smoothing_predict(last, before, k) ==
    IF DLess(last, before)
    THEN LET down == DMul(DSub(before, last), k)
         IN  IF DLess(last, down) THEN clamp(-DRound(DSub(down, last)))
             ELSE clamp(DRound(DSub(last, down)))
    ELSE clamp(DRound(DAdd(last, DMul(DSub(last, before), k))))

exponential_smoothing_forecast(data, days) ==
    LET aqi_values == prepare_data(data)
        n == Len(aqi_values)
        s == smoothed(aqi_values)
    IN  IF n < 3 THEN model_default_forecast(days)
        ELSE [i \in 1..days |-> Prediction(i - 1, smoothing_predict(s[n], s[n - 1], i))]

---------------------------------------------------------------------------
(* forecasting/models/seasonal_decomposition.py *)

\* SeasonalDecompositionModel.__init__ default season_length
SEASON_LENGTH == 7

\* aqi_values[day::season_length]
Stride(aqi_values, day) ==
    [k \in 1..((Len(aqi_values) - day + SEASON_LENGTH - 1) \div SEASON_LENGTH) |->
        aqi_values[day + 1 + (k - 1) * SEASON_LENGTH]]

seasonal_component(aqi_values) ==
    [d \in 1..SEASON_LENGTH |->
        IF Stride(aqi_values, d - 1) # <<>> THEN mean(Stride(aqi_values, d - 1))
        ELSE mean(aqi_values)]

\* forecast of SeasonalDecompositionModel handing over below one week only
seasonal_forecast_one_week(data, days, wd) ==
    LET aqi_values == prepare_data(data)
        n == Len(aqi_values)
        comp == seasonal_component(aqi_values)
        trend == RDiv(RSub(mean(LastK(aqi_values, 7)), mean(FirstK(aqi_values, 7))), RInt(n))
        base_aqi == mean(LastK(aqi_values, 7))
        day_of_week(i) == (wd + 1 + i) % 7
        seasonal(i) == comp[(day_of_week(i) % SEASON_LENGTH) + 1]
    IN  IF n < 7 THEN moving_average_forecast(data, days)
        ELSE [i \in 1..days |->
                Prediction(i - 1,
                    clamp(round(RAdd(RAdd(base_aqi, RMul(trend, RInt(i))),
                                     RSub(seasonal(i - 1), rmean(comp))))))]

\* SeasonalDecompositionModel.forecast; wd is date.today().weekday()
seasonal_forecast(data, days, wd) ==
    LET aqi_values == prepare_data(data)
        n == Len(aqi_values)
        comp == seasonal_component(aqi_values)
        trend == RDiv(RSub(mean(LastK(aqi_values, 7)), mean(FirstK(aqi_values, 7))), RInt(n))
        base_aqi == mean(LastK(aqi_values, 7))
        day_of_week(i) == (wd + 1 + i) % 7
        seasonal(i) == comp[(day_of_week(i) % SEASON_LENGTH) + 1]
    IN  IF n < 14 THEN moving_average_forecast(data, days)
        ELSE [i \in 1..days |->
                Prediction(i - 1,
                    clamp(round(RAdd(RAdd(base_aqi, RMul(trend, RInt(i))),
                                     RSub(seasonal(i - 1), rmean(comp))))))]

---------------------------------------------------------------------------
(* forecasting/models/arima.py *)

arima_forecast(data, days) ==
    LET aqi_values == prepare_data(data)
        n == Len(aqi_values)
        w0 == IF 7 < n \div 3 THEN 7 ELSE n \div 3
        window == IF w0 < 3 THEN 3 ELSE w0
        ma == convolve(aqi_values, window)
        trend == ma_trend(ma)
        seasonal == IF n >= 14
                    THEN RSub(mean(LastK(aqi_values, 7)), mean(PrevK(aqi_values, 7)))
                    ELSE RInt(0)
        last_aqi == aqi_values[n]
    IN  IF n < 7 THEN model_default_forecast(days)
        ELSE [i \in 1..days |->
                Prediction(i - 1,
                    clamp(round(RAdd(RAdd(RInt(last_aqi), RMul(trend, RInt(i))),
                                     RMul(seasonal, RInt(i % 7))))))]

---------------------------------------------------------------------------
(* get_min_data_points of each model *)

get_min_data_points(m) ==
    CASE m = "linear" -> 3
      [] m = "moving_average" -> 5
      [] m = "exponential_smoothing" -> 3
      [] m = "seasonal" -> 14
      [] m = "arima" -> 7
      [] m = "ensemble" -> 3

---------------------------------------------------------------------------
(* forecasting/models/ensemble.py *)

\* EnsembleModel.sub_models, in insertion order
sub_models == <<"linear", "moving_average", "exponential_smoothing", "seasonal">>

\* weights = [0.3, 0.25, 0.25, 0.2]
weights == <<Rat(3, 10), Rat(1, 4), Rat(1, 4), Rat(1, 5)>>

\* forecast() of sub-model m with today's weekday wd
sub_model_forecast(m, data, days, wd) ==
    CASE m = "linear" -> linear_forecast(data, days)
      [] m = "moving_average" -> moving_average_forecast(data, days)
      [] m = "exponential_smoothing" -> exponential_smoothing_forecast(data, days)
      [] m = "seasonal" -> seasonal_forecast(data, days, wd)

\* forecast() of model m raises: m is faulty, or it is the seasonal model handing
\* over to a faulty moving average (fewer than 14 points)
model_raises(m, data, F) ==
    \/ m \in F
    \/ m = "seasonal" /\ Len(prepare_data(data)) < 14 /\ "moving_average" \in F

\* predictions_list: the results of the sub-models that did not raise, in order
predictions_list(data, days, wd, F) ==
    LET ok == SelectSeq(sub_models, LAMBDA m : ~model_raises(m, data, F))
    IN  [j \in 1..Len(ok) |-> sub_model_forecast(ok[j], data, days, wd)]

\* the weighted sum without the normalisation of lines 54-57
weighted_aqi_raw(aqi_values) ==
    RSumSeq([j \in 1..Len(FirstK(aqi_values, Len(weights))) |->
                RMul(RInt(aqi_values[j]), weights[j])])

\* the weighted average of one day's values, as lines 53-57 compute it
weighted_aqi(aqi_values) ==
    LET k == Len(aqi_values)
        used == FirstK(aqi_values, Len(weights))
        total_weight == RSumSeq(FirstK(weights, k))
    IN  IF k < Len(weights)
        THEN RSumSeq([j \in 1..k |->
                RDiv(RMul(RInt(aqi_values[j]), weights[j]), total_weight)])
        ELSE RSumSeq([j \in 1..Len(used) |-> RMul(RInt(used[j]), weights[j])])

\* aqi_values of day index i: one value per list that is long enough
day_values(plist, i) ==
    LET long == SelectSeq(plist, LAMBDA preds : i < Len(preds))
    IN  [j \in 1..Len(long) |-> long[j][i + 1].predicted_aqi]

\* EnsembleModel._simple_average_forecast
simple_average_forecast(data, days) ==
    LET aqi_values == prepare_data(data)
        n == Len(aqi_values)
        avg_aqi == mean(aqi_values)
        trend == IF n > 7
                 THEN RDiv(RSub(mean(LastK(aqi_values, 7)), mean(FirstK(aqi_values, 7))),
                           RInt(n))
                 ELSE RInt(0)
    IN  IF n = 0 THEN model_default_forecast(days)
        ELSE [i \in 1..days |->
                Prediction(i - 1, clamp(round(RAdd(avg_aqi, RMul(trend, RInt(i))))))]

\* EnsembleModel.forecast
ensemble_forecast(data, days, wd, F) ==
    LET plist == predictions_list(data, days, wd, F)
    IN  IF Len(plist) = 0 THEN simple_average_forecast(data, days)
        ELSE [i \in 1..days |->
                LET aqi_values == day_values(plist, i - 1)
                IN  IF Len(aqi_values) > 0
                    THEN Prediction(i - 1, clamp(round(weighted_aqi(aqi_values))))
                    ELSE Prediction(i - 1, 75)]

\* EnsembleModel.forecast raises: no sub-model answered and the simple average raised
ensemble_raises(data, F) ==
    /\ \A j \in 1..Len(sub_models) : model_raises(sub_models[j], data, F)
    /\ "ensemble" \in F

---------------------------------------------------------------------------
(* forecasting/forecasting_service.py *)

\* ForecastingService.models
models == {"linear", "moving_average", "exponential_smoothing", "seasonal", "arima",
           "ensemble"}

\* get_name() of each model (the alpha of the smoothing model spelled out)
get_name(m) ==
    CASE m = "linear" -> "Linear Regression"
      [] m = "moving_average" -> "Moving Average (window=7)"
      [] m = "exponential_smoothing" -> "Exponential Smoothing (alpha=0.3)"
      [] m = "seasonal" -> "Seasonal Decomposition (period=7)"
      [] m = "arima" -> "Simple ARIMA"
      [] m = "ensemble" -> "Ensemble (Multiple Models)"

\* self.models[m].forecast(historical_data, forecast_days)
model_forecast(m, data, days, wd, F) ==
    CASE m = "arima" -> arima_forecast(data, days)
      [] m = "ensemble" -> ensemble_forecast(data, days, wd, F)
      [] OTHER -> sub_model_forecast(m, data, days, wd)

\* that call raises
forecast_raises(m, data, F) ==
    IF m = "ensemble" THEN ensemble_raises(data, F) ELSE model_raises(m, data, F)

\* the models whose forecast() runs when forecast() of m is called: the ensemble
\* calls its four sub-models, the seasonal model a moving average below 14 points
invoked_by(m, data, F) ==
    LET seasonal_calls ==
            IF Len(prepare_data(data)) < 14 /\ "seasonal" \notin F
            THEN {"seasonal", "moving_average"} ELSE {"seasonal"}
    IN  CASE m = "ensemble" ->
                {"ensemble", "linear", "moving_average", "exponential_smoothing"}
                \cup seasonal_calls
          [] m = "seasonal" -> seasonal_calls
          [] OTHER -> {m}

\* the margin of the last branch applied to every method
margin_single_policy(aqi, m) == RMax(RInt(10), RMul(RInt(aqi), Rat(25, 100)))

\* margin = max(floor, aqi * pct) for the method used
margin(aqi, m) ==
    CASE m = "ensemble" -> RMax(RInt(5), RMul(RInt(aqi), Rat(15, 100)))
      [] m = "linear" -> RMax(RInt(8), RMul(RInt(aqi), Rat(20, 100)))
      [] m = "moving_average" -> RMax(RInt(6), RMul(RInt(aqi), Rat(18, 100)))
      [] OTHER -> RMax(RInt(10), RMul(RInt(aqi), Rat(25, 100)))

\* the 95% bounds taken at half the margin instead of 1.5 times
confidence_of_narrow_95(aqi, m) ==
    LET mg == margin(aqi, m)
        wide == RMul(mg, Rat(1, 2))
    IN  [low_80 |-> clamp(round(RSub(RInt(aqi), mg))),
         high_80 |-> clamp(round(RAdd(RInt(aqi), mg))),
         low_95 |-> clamp(round(RSub(RInt(aqi), wide))),
         high_95 |-> clamp(round(RAdd(RInt(aqi), wide)))]

\* the 'confidence' dict of one prediction
confidence_of(aqi, m) ==
    LET mg == margin(aqi, m)
        wide == RMul(mg, Rat(3, 2))
    IN  [low_80 |-> clamp(round(RSub(RInt(aqi), mg))),
         high_80 |-> clamp(round(RAdd(RInt(aqi), mg))),
         low_95 |-> clamp(round(RSub(RInt(aqi), wide))),
         high_95 |-> clamp(round(RAdd(RInt(aqi), wide)))]

\* ForecastingService._add_confidence_intervals
add_confidence_intervals(preds, m) ==
    [i \in 1..Len(preds) |->
        [preds[i] EXCEPT !.confidence = confidence_of(preds[i].predicted_aqi, m)]]

\* _default_forecast with a loop that stops one day early
default_forecast_short(days, offsets) ==
    [i \in 1..(days - 1) |-> Prediction(i - 1, clamp(60 + offsets[i]))]

\* ForecastingService._default_forecast; offsets[i] is what random.randint(-15, 25)
\* returned for day i
default_forecast(days, offsets) ==
    [i \in 1..days |-> Prediction(i - 1, clamp(60 + offsets[i]))]

\* an unregistered key resolved to another registered model
resolve_method_linear(m) == IF m \notin models THEN "linear" ELSE m

\* method = 'ensemble' when the key is not registered
resolve_method(m) == IF m \notin models THEN "ensemble" ELSE m

\* the early return with the threshold one too low
insufficient_below_two(data) == Len(data) = 0 \/ Len(data) < 2

\* the early return of forecast_aqi: not historical_data or len(historical_data) < 3
insufficient(data) == Len(data) = 0 \/ Len(data) < 3

DefaultMetadata == [model |-> "Default", method |-> "default", confidence |-> "low"]

\* the metadata of the except branch without its "error" entry
ErrorMetadata_without_error ==
    [model |-> "Default", method |-> "default", confidence |-> "low"]

ErrorMetadata ==
    [model |-> "Default", method |-> "default", error |-> "str(e)", confidence |-> "low"]

SuccessMetadata(m, data) ==
    [model |-> get_name(m), method |-> m, data_points |-> Len(data),
     confidence |-> IF Len(data) > 30 THEN "high" ELSE "medium"]

\* ForecastingService.forecast_aqi, awaited: <<predictions, metadata>>
forecast_aqi(data, days, m, wd, F, offsets) ==
    IF insufficient(data) THEN <<default_forecast(days, offsets), DefaultMetadata>>
    ELSE LET key == resolve_method(m)
         IN  IF forecast_raises(key, data, F)
             THEN <<default_forecast(days, offsets), ErrorMetadata>>
             ELSE <<add_confidence_intervals(model_forecast(key, data, days, wd, F), key),
                    SuccessMetadata(key, data)>>

---------------------------------------------------------------------------
(* What a call reads from its environment. *)

\* random.randint(-15, 25), sampled
RandintSamples ==
    {-15 + k * RandintStride : k \in 0..(40 \div RandintStride)} \cup {25}

\* random.uniform(-0.1, 0.1), sampled
JitterSamples == {Rat(k, 10 * JitterGrid) : k \in -JitterGrid..JitterGrid}

\* the seasonal model reaches its weekday lookup (line 45)
reads_weekday(m, data, F) ==
    /\ m \in {"seasonal", "ensemble"}
    /\ Len(prepare_data(data)) >= 14
    /\ "seasonal" \notin F

\* Monday is 0; -1 stands for a call that did not read the weekday
WeekdayChoices(m, data, F) == IF reads_weekday(m, data, F) THEN 0..6 ELSE {-1}

\* the randint draws forecast_aqi makes: one per day on its two default paths
OffsetChoices(data, days, m, F) ==
    IF insufficient(data) \/ forecast_raises(resolve_method(m), data, F)
    THEN [1..days -> RandintSamples]
    ELSE {<<>>}

\* the ways a model's forecast() can be made to raise during a call
FaultChoices(m) ==
    CASE m = "ensemble" -> SUBSET {"linear", "moving_average", "exponential_smoothing",
                                   "seasonal"}
                           \cup {{"linear", "moving_average", "exponential_smoothing",
                                  "seasonal", "ensemble"}}
      [] m = "seasonal" -> {{}, {"seasonal"}, {"moving_average"}}
      [] OTHER -> {{}, {m}}

\* the faults a call of the service is made with: none, one model raising, and
\* for the ensemble all sub-models raising with and without the simple average
ServiceFaultChoices(m) ==
    IF m = "ensemble"
    THEN {{}, {"linear"},
          {"linear", "moving_average", "exponential_smoothing", "seasonal"},
          {"linear", "moving_average", "exponential_smoothing", "seasonal", "ensemble"}}
    ELSE {{}, {m}}

---------------------------------------------------------------------------
(* services/timegpt_service.py *)

\* what the remote step met, and for a parsed answer the arrays of its "forecast"
Remote(kind, y, y_80, y_80_hi, y_95, y_95_hi) ==
    [kind |-> kind, y |-> y, y_80 |-> y_80, y_80_hi |-> y_80_hi, y_95 |-> y_95,
     y_95_hi |-> y_95_hi]

RemoteOf(kind) == Remote(kind, <<>>, <<>>, <<>>, <<>>, <<>>)

\* the remote step up to the parser (lines 53-126): "fallback" for a return of the
\* fallback inside the try, "parse" when the parser is called, else the exception raised
remote_step(kind) ==
    CASE kind = "not_called" -> "fallback"
      [] kind = "post_raises_http_error" -> "HTTPError"
      [] kind = "post_raises" -> "Exception"
      [] kind = "status_401" -> "fallback"
      [] kind = "status_429" -> "fallback"
      [] kind = "status_500" -> "HTTPError"
      [] kind = "json_raises" -> "Exception"
      [] kind = "no_content" -> "fallback"
      [] kind = "content_not_json" -> "fallback"
      [] OTHER -> "parse"

\* _parse_timegpt_response raises: response_data has no .get, or y[i] has no round()
parser_raises(kind) == kind \in {"not_an_object", "y_not_numeric"}

\* forecast_aqi without its last clause, except Exception
caught_http_only(exc) == exc = "HTTPError"

\* the except clauses of forecast_aqi (lines 128-133)
caught(exc) == exc = "HTTPError" \/ exc = "Exception"

\* _parse_timegpt_response attaching the 95% keys from the 80% arrays
parse_timegpt_response_shared_arrays(r, days) ==
    LET forecast_values == r.y
        m == IF days < Len(forecast_values) THEN days ELSE Len(forecast_values)
        keys(i) == IF i < Len(r.y_80) /\ i < Len(r.y_80_hi)
                   THEN {"low_80", "high_80", "low_95", "high_95"} ELSE {}
        bound(k, i) ==
            CASE k = "low_80" -> r.y_80[i + 1]
              [] k = "high_80" -> r.y_80_hi[i + 1]
              [] k = "low_95" -> r.y_80[i + 1]
              [] k = "high_95" -> r.y_80_hi[i + 1]
    IN  [i \in 1..m |->
            [Prediction(i - 1, clamp(round(forecast_values[i])))
                EXCEPT !.confidence = [k \in keys(i - 1) |-> clamp(round(bound(k, i - 1)))]]]

\* TimeGPTService._parse_timegpt_response
parse_timegpt_response(r, days) ==
    LET forecast_values == r.y
        m == IF days < Len(forecast_values) THEN days ELSE Len(forecast_values)
        keys(i) == (IF i < Len(r.y_80) /\ i < Len(r.y_80_hi)
                    THEN {"low_80", "high_80"} ELSE {})
                   \cup (IF i < Len(r.y_95) /\ i < Len(r.y_95_hi)
                         THEN {"low_95", "high_95"} ELSE {})
        bound(k, i) ==
            CASE k = "low_80" -> r.y_80[i + 1]
              [] k = "high_80" -> r.y_80_hi[i + 1]
              [] k = "low_95" -> r.y_95[i + 1]
              [] k = "high_95" -> r.y_95_hi[i + 1]
    IN  [i \in 1..m |->
            [Prediction(i - 1, clamp(round(forecast_values[i])))
                EXCEPT !.confidence = [k \in keys(i - 1) |-> clamp(round(bound(k, i - 1)))]]]

\* ForecastingService.forecast_aqi is declared async def
forecast_aqi_is_async == TRUE

\* _fallback_forecast awaits the call of line 195
fallback_awaits == FALSE

\* line 195 raises TypeError: a coroutine object cannot be unpacked into
\* predictions, metadata
enhanced_call_raises == forecast_aqi_is_async /\ ~fallback_awaits

\* the simple fallback of _fallback_forecast (lines 208-268); variation[i] is what
\* random.uniform(-0.1, 0.1) returned for day i
simple_fallback(data, days, variation) ==
    LET aqi_values == prepare_data(data)
        n == Len(aqi_values)
        recent_avg == IF n >= 7 THEN Rat(SumSeq(LastK(aqi_values, 7)), 7)
                      ELSE mean(aqi_values)
        older_avg == IF n >= 14 THEN Rat(SumSeq(PrevK(aqi_values, 7)), 7) ELSE recent_avg
        trend == IF n >= 7 THEN RDiv(RSub(recent_avg, older_avg), RInt(7)) ELSE RInt(0)
        base_aqi(i) == RAdd(recent_avg, RMul(trend, RInt(i)))
    IN  IF Len(data) = 0 THEN model_default_forecast(days)
        ELSE IF n = 0 THEN model_default_forecast(days)
        ELSE [i \in 1..days |->
                Prediction(i - 1,
                    clamp(round(RMul(base_aqi(i - 1), RAdd(RInt(1), variation[i])))))]

\* the uniform draws the simple fallback makes
VariationChoices(data, days) ==
    IF Len(prepare_data(data)) = 0 THEN {<<>>} ELSE [1..days -> JitterSamples]

\* TimeGPTService._fallback_forecast: every list it can return, with the path taken
fallback_forecast(data, days) ==
    IF ~enhanced_call_raises
    THEN {[path |-> "enhanced",
           predictions |-> forecast_aqi(data, days, "ensemble", wd, {}, o)[1]] :
            wd \in WeekdayChoices("ensemble", data, {}),
            o \in OffsetChoices(data, days, "ensemble", {})}
    ELSE {[path |-> "simple", predictions |-> simple_fallback(data, days, v)] :
            v \in VariationChoices(data, days)}

\* TimeGPTService.forecast_aqi with remote answer r: every
\* [predictions, used_fallback, raised, path] it can end with
timegpt_forecast_aqi(key, data, days, r) ==
    LET step == IF ~key \/ Len(prepare_data(data)) < 7 THEN "fallback"
                ELSE remote_step(r.kind)
        exc == IF step = "parse" /\ parser_raises(r.kind) THEN "Exception" ELSE step
    IN  IF exc = "parse"
        THEN {[predictions |-> parse_timegpt_response(r, days), used_fallback |-> FALSE,
               raised |-> FALSE, path |-> "remote"]}
        ELSE IF exc = "fallback" \/ caught(exc)
        THEN {[predictions |-> f.predictions, used_fallback |-> TRUE, raised |-> FALSE,
               path |-> f.path] : f \in fallback_forecast(data, days)}
        ELSE {[predictions |-> <<>>, used_fallback |-> FALSE, raised |-> TRUE,
               path |-> "none"]}

---------------------------------------------------------------------------
(* services/telegram_service.py *)

\* what a client.post of send_message can meet: a 2xx answer, a 429 with a JSON
\* body, a 429 whose body is not JSON, another error status, the call raising
Responses == {"ok", "rate_limited", "rate_limited_no_json", "error_status", "post_raises"}

\* send_message after a response (lines 60-75): <<TRUE>> or <<FALSE>> returned, <<>>
\* when it sleeps and calls send_message again (line 65)
after_response(resp) ==
    CASE resp = "ok" -> <<TRUE>>
      [] resp = "rate_limited" -> <<>>
      [] OTHER -> <<FALSE>>

RAbs(a) == [n |-> Abs(a.n), d |-> a.d]

\* SQL's x BETWEEN lo AND hi
between(x, lo, hi) == ~RLess(x, lo) /\ ~RLess(hi, x)

\* a row of the Subscriber table (db/models.py)
Subscriber(id, chat_id, latitude, longitude, threshold, is_active) ==
    [id |-> id, chat_id |-> chat_id, latitude |-> latitude, longitude |-> longitude,
     threshold |-> threshold, is_active |-> is_active]

\* _get_nearby_subscribers divides by 111.0 * abs(lat) / 90.0: ZeroDivisionError
nearby_raises(lat) == lat.n = 0

\* TelegramService._get_nearby_subscribers with the default radius_km = 50.0
get_nearby_subscribers(rows, lat, lon) ==
    LET radius_km == RInt(50)
        lat_range == RDiv(radius_km, RInt(111))
        lon_range == RDiv(radius_km, RDiv(RMul(RInt(111), RAbs(lat)), RInt(90)))
    IN  SelectSeq(rows, LAMBDA s :
            /\ s.is_active
            /\ between(s.latitude, RSub(lat, lat_range), RAdd(lat, lat_range))
            /\ between(s.longitude, RSub(lon, lon_range), RAdd(lon, lon_range)))

\* AQICalculator.is_alert_threshold_exceeded and the test of line 182
is_alert_threshold_exceeded(aqi, threshold) == aqi > threshold

\* prediction.get("predicted_aqi", 0)
predicted_aqi_of(prediction) ==
    IF prediction.predicted_aqi = <<>> THEN 0 ELSE prediction.predicted_aqi[1]

\* the alerts check_and_send_alerts attempts (lines 168-185), in the order of its
\* loops: predictions outside, nearby subscribers inside
alert_attempts(rows, preds, lat, lon) ==
    LET near == get_nearby_subscribers(rows, lat, lon)
        P == Len(preds)
        S == Len(near)
        pred(k) == preds[((k - 1) \div S) + 1]
        sub(k) == near[((k - 1) % S) + 1]
        pairs == SelectSeq([k \in 1..(P * S) |-> k], LAMBDA k :
                    /\ pred(k).date # <<>>
                    /\ is_alert_threshold_exceeded(predicted_aqi_of(pred(k)),
                                                   sub(k).threshold))
    IN  [j \in 1..Len(pairs) |->
            [chat_id |-> sub(pairs[j]).chat_id, subscriber_id |-> sub(pairs[j]).id,
             date |-> pred(pairs[j]).date[1], aqi |-> predicted_aqi_of(pred(pairs[j])),
             threshold |-> sub(pairs[j]).threshold]]

NoAlerts == [alerts_sent |-> 0, subscribers_notified |-> 0, details |-> <<>>]

\* what check_and_send_alerts returns when its attempts had the outcomes sent[j]
alert_statistics(attempts, sent) ==
    [alerts_sent |-> Cardinality({j \in 1..Len(attempts) : sent[j]}),
     subscribers_notified |->
        Cardinality({attempts[j].chat_id : j \in {i \in 1..Len(attempts) : sent[i]}}),
     details |-> [j \in 1..Len(attempts) |->
                    [chat_id |-> attempts[j].chat_id, date |-> attempts[j].date,
                     aqi |-> attempts[j].aqi, threshold |-> attempts[j].threshold,
                     sent |-> sent[j]]]]

\* the AlertLog rows send_air_quality_alert adds (lines 113-126), one per attempt
alert_log_rows(attempts, sent) ==
    [j \in 1..Len(attempts) |->
        [subscriber_id |-> attempts[j].subscriber_id, alert_date |-> attempts[j].date,
         aqi_value |-> attempts[j].aqi, threshold |-> attempts[j].threshold,
         success |-> sent[j]]]

---------------------------------------------------------------------------
(* routers/alerts.py *)

\* session.exec(select(Subscriber).where(Subscriber.chat_id == chat_id)).first():
\* the position of the row, 0 for None
find_subscriber(rows, chat_id) ==
    LET hits == {i \in 1..Len(rows) : rows[i].chat_id = chat_id}
    IN  IF hits = {} THEN 0 ELSE CHOOSE i \in hits : \A j \in hits : i <= j

\* -90 <= lat <= 90 and -180 <= lon <= 180
valid_coordinates(lat, lon) ==
    /\ between(lat, RInt(-90), RInt(90))
    /\ between(lon, RInt(-180), RInt(180))

\* subscribe_to_alerts leaving a found row's is_active as it was
subscribe_to_alerts_keeps_flag(rows, chat_id, loc, threshold) ==
    LET existing == find_subscriber(rows, chat_id) IN
    IF loc = <<>> THEN [rows |-> rows, status |-> 400]
    ELSE IF ~valid_coordinates(loc[1], loc[2]) THEN [rows |-> rows, status |-> 400]
    ELSE IF existing # 0
    THEN [rows |-> [rows EXCEPT ![existing] =
                        [@ EXCEPT !.latitude = loc[1], !.longitude = loc[2],
                                  !.threshold = threshold]],
          status |-> 200]
    ELSE [rows |-> Append(rows, Subscriber(Len(rows) + 1, chat_id, loc[1], loc[2],
                                           threshold, TRUE)),
          status |-> 200]

\* subscribe_to_alerts: the table it leaves and the status it answers; loc is <<>>
\* for a location without 'lat' or 'lon', else <<lat, lon>>
subscribe_to_alerts(rows, chat_id, loc, threshold) ==
    LET existing == find_subscriber(rows, chat_id) IN
    IF loc = <<>> THEN [rows |-> rows, status |-> 400]
    ELSE IF ~valid_coordinates(loc[1], loc[2]) THEN [rows |-> rows, status |-> 400]
    ELSE IF existing # 0
    THEN [rows |-> [rows EXCEPT ![existing] =
                        [@ EXCEPT !.latitude = loc[1], !.longitude = loc[2],
                                  !.threshold = threshold, !.is_active = TRUE]],
          status |-> 200]
    ELSE [rows |-> Append(rows, Subscriber(Len(rows) + 1, chat_id, loc[1], loc[2],
                                           threshold, TRUE)),
          status |-> 200]

\* unsubscribe_from_alerts
unsubscribe_from_alerts(rows, chat_id) ==
    LET subscriber == find_subscriber(rows, chat_id) IN
    IF subscriber = 0 THEN [rows |-> rows, status |-> 404]
    ELSE [rows |-> [rows EXCEPT ![subscriber] = [@ EXCEPT !.is_active = FALSE]],
          status |-> 200]

\* telegram_webhook for a message of the chat: "start" (text /start), "location"
\* (a location with latitude and longitude), "location_malformed" (float() of a
\* coordinate raises, caught at line 92), "other"; it always answers {"ok": True}
telegram_webhook(rows, chat_id, kind, loc) ==
    LET existing == find_subscriber(rows, chat_id) IN
    IF kind # "location" THEN [rows |-> rows, status |-> 200]
    ELSE IF existing # 0
    THEN [rows |-> [rows EXCEPT ![existing] =
                        [@ EXCEPT !.latitude = loc[1], !.longitude = loc[2],
                                  !.is_active = TRUE]],
          status |-> 200]
    ELSE [rows |-> Append(rows, Subscriber(Len(rows) + 1, chat_id, loc[1], loc[2],
                                           100, TRUE)),
          status |-> 200]

---------------------------------------------------------------------------
(* Arguments and remote answers the calls are made with. *)

Patterns == {"flat", "rise", "surge", "drop", "weekly", "gappy", "absent"}

\* the point of day i (from 0) of a history: <<>> for an absent aqi
Point(p, i) ==
    CASE p = "flat" -> <<75>>
      [] p = "rise" -> <<50 + 2 * i>>
      [] p = "surge" -> <<clamp(70 * i)>>
      [] p = "drop" -> <<clamp(300 - 50 * i)>>
      [] p = "weekly" -> <<40 + 30 * (i % 7)>>
      [] p = "gappy" -> IF i % 3 = 1 THEN <<>> ELSE <<100 + 10 * (i % 4)>>
      [] p = "absent" -> <<>>

History(p, n) == [i \in 1..n |-> Point(p, i - 1)]

Histories == {History(p, n) : p \in Patterns, n \in 0..MaxLen}

Horizons == 1..MaxHorizon

\* n daily AQI values on the line a + b*t, t = 0..n-1
Line(a, b, n) == [i \in 1..n |-> <<a + b * (i - 1)>>]

LineStarts == {0, 50, 300, 480}
LineSlopes == {-10, -2, 0, 2, 7}

\* the histories on a line whose values are all AQI values
Lines ==
    UNION {{Line(a, b, n) : n \in {k \in 3..MaxLineLen : a + b * (k - 1) \in 0..500}} :
            a \in LineStarts, b \in LineSlopes}

\* the histories and horizons a model is called with: the linear model also gets
\* the long lines, over a week
ModelHistories(m) == IF m = "linear" THEN Histories \cup Lines ELSE Histories

ModelHorizons(m, data) ==
    IF m = "linear" /\ data \in Lines THEN Horizons \cup {MaxLineHorizon} ELSE Horizons

\* the registered keys and one that is not
MethodKeys == models \cup {"prophet"}

\* JSON numbers a remote forecast is made of: below 0, a tie, in range, above 500
RemoteCycle == <<Rat(-41, 2), Rat(299, 2), RInt(80), RInt(600)>>

\* the L numbers of the cycle from offset o
RemoteValues(o, L) == [j \in 1..L |-> RemoteCycle[((o + j - 1) % Len(RemoteCycle)) + 1]]

Shift(y, k) == [j \in 1..Len(y) |-> RAdd(y[j], RInt(k))]

\* a parsed answer with forecast.y = y and interval arrays of the given shape
RemoteForecast(y, shape) ==
    CASE shape = "none" -> Remote("forecast", y, <<>>, <<>>, <<>>, <<>>)
      [] shape = "all" ->
            Remote("forecast", y, Shift(y, -10), Shift(y, 10), Shift(y, -20), Shift(y, 20))
      [] shape = "only_80" -> Remote("forecast", y, Shift(y, -10), Shift(y, 10), <<>>, <<>>)
      [] shape = "low_only" -> Remote("forecast", y, Shift(y, -10), <<>>, Shift(y, -20), <<>>)
      [] shape = "short" ->
            Remote("forecast", y, FirstK(Shift(y, -10), 1), Shift(y, 10),
                   Shift(y, -20), FirstK(Shift(y, 20), 1))

RemoteFailures ==
    {"post_raises_http_error", "post_raises", "status_401", "status_429", "status_500",
     "json_raises", "no_content", "content_not_json", "not_an_object", "y_not_numeric",
     "no_forecast", "forecast_no_y"}

\* what the remote step can meet once the request is issued
RemoteAnswers ==
    {RemoteOf(k) : k \in RemoteFailures}
    \cup {RemoteForecast(RemoteValues(o, L), shape) :
            o \in 0..(Len(RemoteCycle) - 1), L \in 0..(MaxHorizon + 1),
            shape \in {"none", "all", "only_80", "low_only", "short"}}

\* the request issued whenever a key is configured
RemoteChoices_key_only(key, data) ==
    IF key THEN RemoteAnswers ELSE {RemoteOf("not_called")}

\* the request is issued only with a key and a week of usable points
RemoteChoices(key, data) ==
    IF key /\ Len(prepare_data(data)) >= 7 THEN RemoteAnswers ELSE {RemoteOf("not_called")}

---------------------------------------------------------------------------
(* The state machine: one action per entry point.  The services keep nothing  *)
(* between calls, so a behaviour is one call made on the constructed services. *)

\* the pollutant arguments tried: the six keys, other spellings of some, others
PollutantKeys ==
    {"pm25", "pm10", "no2", "o3", "so2", "co", "PM25", "Pm10", "NO2", "invalid",
     "INVALID", ""}

\* concentrations the tests call the calculator with
TestConcentrations ==
    {RInt(10), RInt(25), RInt(30), RInt(45), RInt(60), RInt(75), RInt(100), RInt(200),
     RInt(300), RInt(1000)}

\* the concentration arguments tried with pollutant p: None, negative values, a
\* grid over the table, every row's two ends, a value between consecutive rows,
\* values above the table
Concentrations(p) ==
    IF lower(p) \notin DOMAIN AQI_BREAKPOINTS
    THEN {<<>>, <<RInt(-5)>>, <<RInt(25)>>}
    ELSE LET rows == AQI_BREAKPOINTS[lower(p)]
             top == rows[Len(rows)][2]
         IN  {<<>>} \cup
             {<<c>> : c \in
                {Rat(-1, 10), RInt(-10), Rat(top + 1, 10), Rat(2 * top, 10)}
                \cup TestConcentrations
                \cup {Rat(j * ConcentrationStride, 10) :
                        j \in 0..(top \div ConcentrationStride)}
                \cup {Rat(rows[j][1], 10) : j \in 1..Len(rows)}
                \cup {Rat(rows[j][2], 10) : j \in 1..Len(rows)}
                \cup {Rat(rows[j][2] + rows[j + 1][1], 20) : j \in 1..(Len(rows) - 1)}}

\* the aqi arguments get_aqi_category is tried with
CategoryArgs == (-1)..501

\* the measurements dicts tried: any subset of four keys, each with one of five values
DailyKeys == {"pm25", "Pm10", "o3", "invalid"}

DailyConcentrations == {<<>>, <<RInt(-1)>>, <<RInt(25)>>, <<RInt(65)>>, <<RInt(600)>>}

Measurements == UNION {[K -> DailyConcentrations] : K \in SUBSET DailyKeys}

NoMetadata == [model |-> "", method |-> "", confidence |-> ""]

\* the chats the requests are made for
ChatIds == {"12345", "67890"}

\* a chat's entry in last_request: the kind and status of the last request made for
\* it, and the kind of the last one that was not rejected
NoRequest == [kind |-> "none", status |-> 0, accepted |-> "none"]

Request(kind, status, before) ==
    [kind |-> kind, status |-> status,
     accepted |-> IF status = 200 THEN kind ELSE before.accepted]

\* where subscribers are: a town, a place 1 degree north of it, a place on the equator
SubscriberLocations ==
    {<<RInt(40), RInt(10)>>, <<RInt(41), RInt(10)>>, <<RInt(0), RInt(10)>>}

\* the location of test_subscribe_to_alerts_invalid_location, and one without keys
RejectedLocations == {<<RInt(200), RInt(68)>>, <<>>}

Thresholds == {100, 150}

WebhookMessages == {"start", "location", "location_malformed", "other"}

\* where alerts are checked: near the town (0.4 degrees north, 1 degree east of it)
\* and on the equator
CheckLocations == {<<Rat(202, 5), RInt(11)>>, <<RInt(0), RInt(10)>>}

AlertPrediction(aqi, date) == [predicted_aqi |-> aqi, date |-> date]

\* prediction lists: values at, just above and well above the thresholds, one
\* entry without a date, one without predicted_aqi
AlertPredictionLists ==
    {<<>>,
     <<AlertPrediction(<<101>>, <<1>>)>>,
     <<AlertPrediction(<<100>>, <<1>>), AlertPrediction(<<150>>, <<2>>)>>,
     <<AlertPrediction(<<151>>, <<>>), AlertPrediction(<<151>>, <<2>>)>>,
     <<AlertPrediction(<<>>, <<1>>)>>}

\* the endpoints that write the Subscriber table
TableOps == {"subscribe", "unsubscribe", "telegram_webhook"}

Init ==
    /\ op = "none"
    /\ method = ""
    /\ historical_data = <<>>
    /\ forecast_days = 0
    /\ weekday = -1
    /\ faults = {}
    /\ api_key = FALSE
    /\ remote = RemoteOf("not_called")
    /\ remote_calls = 0
    /\ predictions = <<>>
    /\ metadata = NoMetadata
    /\ used_fallback = FALSE
    /\ raised = FALSE
    /\ invoked = {}
    /\ path = "none"
    /\ pollutant = ""
    /\ concentration = <<>>
    /\ aqi_out = <<>>
    /\ aqi_in = 0
    /\ category_out = ""
    /\ measurements = <<>>
    /\ daily = <<>>
    /\ bot_token = FALSE
    /\ requests = 0
    /\ response = "none"
    /\ send_result = <<>>
    /\ subscribers = <<>>
    /\ last_request = [c \in ChatIds |-> NoRequest]
    /\ alert_log = <<>>
    /\ alert_predictions = <<>>
    /\ location = <<>>
    /\ stats = <<>>

\* <Model>.forecast(historical_data, forecast_days) called directly
ModelForecast ==
    /\ op = "none"
    /\ \E m \in models :
     \E data \in ModelHistories(m) :
      \E days \in ModelHorizons(m, data) :
      \E F \in FaultChoices(m) :
        \E wd \in WeekdayChoices(m, data, F) :
         \E res \in {IF forecast_raises(m, data, F) THEN <<>>
                     ELSE model_forecast(m, data, days, wd, F)} :
            /\ op' = "model"
            /\ method' = m
            /\ historical_data' = data
            /\ forecast_days' = days
            /\ weekday' = wd
            /\ faults' = F
            /\ raised' = forecast_raises(m, data, F)
            /\ invoked' = invoked_by(m, data, F)
            /\ predictions' = res
            /\ metadata' = NoMetadata
            /\ UNCHANGED <<api_key, remote, remote_calls, used_fallback, path>>
            /\ UNCHANGED aqi_vars
            /\ UNCHANGED notify_vars

\* await ForecastingService.forecast_aqi(historical_data, forecast_days, method)
ServiceForecast ==
    /\ op = "none"
    /\ \E m \in MethodKeys, data \in Histories, days \in Horizons :
      \E F \in IF insufficient(data) THEN {{}} ELSE ServiceFaultChoices(resolve_method(m)) :
        \E wd \in IF insufficient(data) THEN {-1}
                  ELSE WeekdayChoices(resolve_method(m), data, F) :
          \E o \in OffsetChoices(data, days, m, F) :
           \E res \in {forecast_aqi(data, days, m, wd, F, o)} :
            /\ op' = "service"
            /\ method' = m
            /\ historical_data' = data
            /\ forecast_days' = days
            /\ weekday' = wd
            /\ faults' = F
            /\ raised' = FALSE
            /\ invoked' = IF insufficient(data) THEN {}
                          ELSE invoked_by(resolve_method(m), data, F)
            /\ predictions' = res[1]
            /\ metadata' = res[2]
            /\ UNCHANGED <<api_key, remote, remote_calls, used_fallback, path>>
            /\ UNCHANGED aqi_vars
            /\ UNCHANGED notify_vars

\* await TimeGPTService.forecast_aqi(historical_data, forecast_days)
AdapterForecast ==
    /\ op = "none"
    /\ \E key \in BOOLEAN, data \in Histories, days \in Horizons :
      \E r \in RemoteChoices(key, data) :
        \E res \in timegpt_forecast_aqi(key, data, days, r) :
            /\ op' = "adapter"
            /\ method' = ""
            /\ historical_data' = data
            /\ forecast_days' = days
            /\ weekday' = -1
            /\ faults' = {}
            /\ api_key' = key
            /\ remote' = r
            /\ remote_calls' = IF r.kind = "not_called" THEN 0 ELSE 1
            /\ predictions' = res.predictions
            /\ metadata' = NoMetadata
            /\ used_fallback' = res.used_fallback
            /\ raised' = res.raised
            /\ invoked' = IF res.path = "enhanced"
                          THEN invoked_by("ensemble", data, {}) ELSE {}
            /\ path' = res.path
            /\ UNCHANGED aqi_vars
            /\ UNCHANGED notify_vars

\* AQICalculator.calculate_aqi(concentration, pollutant)
CalculateAqi ==
    /\ op = "none"
    /\ \E p \in PollutantKeys :
        \E c \in Concentrations(p) :
            /\ op' = "calculate_aqi"
            /\ pollutant' = p
            /\ concentration' = c
            /\ aqi_out' = calculate_aqi(c, p)
            /\ UNCHANGED <<aqi_in, category_out, measurements, daily>>
            /\ UNCHANGED forecast_vars
            /\ UNCHANGED notify_vars

\* AQICalculator.get_aqi_category(aqi)
AqiCategory ==
    /\ op = "none"
    /\ \E a \in CategoryArgs :
            /\ op' = "get_aqi_category"
            /\ aqi_in' = a
            /\ category_out' = get_aqi_category(a)
            /\ UNCHANGED <<pollutant, concentration, aqi_out, measurements, daily>>
            /\ UNCHANGED forecast_vars
            /\ UNCHANGED notify_vars

\* AQICalculator.calculate_daily_aqi(measurements)
CalculateDailyAqi ==
    /\ op = "none"
    /\ \E meas \in Measurements :
            /\ op' = "calculate_daily_aqi"
            /\ measurements' = meas
            /\ daily' = calculate_daily_aqi(meas)
            /\ UNCHANGED <<pollutant, concentration, aqi_out, aqi_in, category_out>>
            /\ UNCHANGED forecast_vars
            /\ UNCHANGED notify_vars

\* await TelegramService.send_message(chat_id, message), up to its first response
SendMessage ==
    /\ op = "none"
    /\ \E token \in BOOLEAN :
        \E resp \in IF token THEN Responses ELSE {"none"} :
            /\ op' = "send_message"
            /\ bot_token' = token
            /\ requests' = IF token THEN 1 ELSE 0
            /\ response' = resp
            /\ send_result' = IF token THEN after_response(resp) ELSE <<FALSE>>
            /\ UNCHANGED <<forecast_vars, aqi_vars, alert_vars>>

\* line 65: after a 429 the call sleeps and calls send_message again
SendMessageAgain ==
    /\ op = "send_message"
    /\ send_result = <<>>
    /\ requests < MaxRequests
    /\ \E resp \in Responses :
            /\ requests' = requests + 1
            /\ response' = resp
            /\ send_result' = after_response(resp)
            /\ UNCHANGED <<op, bot_token, forecast_vars, aqi_vars, alert_vars>>

\* POST /api/alerts/subscribe
Subscribe ==
    /\ op \in TableOps \cup {"none"}
    /\ \E chat_id \in ChatIds, loc \in SubscriberLocations \cup RejectedLocations,
          threshold \in Thresholds :
        \E res \in {subscribe_to_alerts(subscribers, chat_id, loc, threshold)} :
            /\ op' = "subscribe"
            /\ subscribers' = res.rows
            /\ last_request' = [last_request EXCEPT ![chat_id] =
                                    Request("subscribe", res.status, @)]
            /\ UNCHANGED <<alert_log, alert_predictions, location, stats>>
            /\ UNCHANGED <<bot_token, send_vars, forecast_vars, aqi_vars>>

\* DELETE /api/alerts/unsubscribe
Unsubscribe ==
    /\ op \in TableOps \cup {"none"}
    /\ \E chat_id \in ChatIds :
        \E res \in {unsubscribe_from_alerts(subscribers, chat_id)} :
            /\ op' = "unsubscribe"
            /\ subscribers' = res.rows
            /\ last_request' = [last_request EXCEPT ![chat_id] =
                                    Request("unsubscribe", res.status, @)]
            /\ UNCHANGED <<alert_log, alert_predictions, location, stats>>
            /\ UNCHANGED <<bot_token, send_vars, forecast_vars, aqi_vars>>

\* POST /api/alerts/webhook with a message of a chat; only location messages are
\* recorded in last_request
TelegramWebhook ==
    /\ op \in TableOps \cup {"none"}
    /\ \E chat_id \in ChatIds, kind \in WebhookMessages, loc \in SubscriberLocations :
        \E res \in {telegram_webhook(subscribers, chat_id, kind, loc)} :
            /\ op' = "telegram_webhook"
            /\ subscribers' = res.rows
            /\ last_request' =
                IF kind = "location"
                THEN [last_request EXCEPT ![chat_id] = Request(kind, res.status, @)]
                ELSE last_request
            /\ UNCHANGED <<alert_log, alert_predictions, location, stats>>
            /\ UNCHANGED <<bot_token, send_vars, forecast_vars, aqi_vars>>

\* await TelegramService.check_and_send_alerts(predictions, lat, lon) on the table
\* as it stands; sent[j] is what send_message returned for the j-th attempt
CheckAndSendAlerts ==
    /\ op \in TableOps \cup {"none"}
    /\ \E token \in BOOLEAN, preds \in AlertPredictionLists, loc \in CheckLocations :
        \E attempts \in {IF ~token \/ nearby_raises(loc[1]) THEN <<>>
                         ELSE alert_attempts(subscribers, preds, loc[1], loc[2])} :
          \E sent \in [1..Len(attempts) -> BOOLEAN] :
            /\ op' = "check_and_send_alerts"
            /\ bot_token' = token
            /\ alert_predictions' = preds
            /\ location' = loc
            /\ raised' = (token /\ nearby_raises(loc[1]))
            /\ stats' = IF token /\ nearby_raises(loc[1]) THEN <<>>
                        ELSE IF ~token THEN <<NoAlerts>>
                        ELSE <<alert_statistics(attempts, sent)>>
            /\ alert_log' = alert_log \o alert_log_rows(attempts, sent)
            /\ UNCHANGED <<subscribers, last_request, send_vars, aqi_vars>>
            /\ UNCHANGED <<method, historical_data, forecast_days, weekday, faults,
                           api_key, remote, remote_calls, predictions, metadata,
                           used_fallback, invoked, path>>

Next ==
    \/ ModelForecast
    \/ ServiceForecast
    \/ AdapterForecast
    \/ CalculateAqi
    \/ AqiCategory
    \/ CalculateDailyAqi
    \/ SendMessage
    \/ SendMessageAgain
    \/ Subscribe
    \/ Unsubscribe
    \/ TelegramWebhook
    \/ CheckAndSendAlerts

Spec == Init /\ [][Next]_vars

\* the local forecasting core: the models and the service
NextForecasting == ModelForecast \/ ServiceForecast
SpecForecasting == Init /\ [][NextForecasting]_vars

\* the calls of one entry point alone
NextModel == ModelForecast
SpecModel == Init /\ [][NextModel]_vars

NextService == ServiceForecast
SpecService == Init /\ [][NextService]_vars

NextAdapter == AdapterForecast
SpecAdapter == Init /\ [][NextAdapter]_vars

\* the AQI calculator
NextAqi == CalculateAqi \/ AqiCategory \/ CalculateDailyAqi
SpecAqi == Init /\ [][NextAqi]_vars

\* the notification layer: messaging, the subscription endpoints, the alert check
NextNotify ==
    \/ SendMessage
    \/ SendMessageAgain
    \/ Subscribe
    \/ Unsubscribe
    \/ TelegramWebhook
    \/ CheckAndSendAlerts
SpecNotify == Init /\ [][NextNotify]_vars

---------------------------------------------------------------------------
(* Properties. *)

usable_points == Len(prepare_data(historical_data))

InRange(v) == v \in 0..500

\* the adapter's remote step did not end in a parsed answer
RemoteStepFailed ==
    \/ ~api_key
    \/ usable_points < 7
    \/ remote.kind \in {"post_raises_http_error", "post_raises", "status_401", "status_429",
                        "status_500", "json_raises", "no_content", "content_not_json",
                        "not_an_object", "y_not_numeric"}

\* C1: whatever the remote step of the adapter meets (no credential, fewer than 7
\* usable points, the call raising, 401, 429, another error status, no content,
\* content that is not JSON, the parser raising), no exception leaves forecast_aqi
\* and used_fallback is true; used_fallback is false only for a parsed answer.
C1_RemoteFailureFallsBack ==
    op = "adapter" =>
        /\ ~raised
        /\ RemoteStepFailed => used_fallback
        /\ ~used_fallback =>
            /\ api_key
            /\ usable_points >= 7
            /\ remote.kind \in {"forecast", "no_forecast", "forecast_no_y"}
            /\ path = "remote"

C1_Witness ==
    /\ op = "adapter"
    /\ api_key
    /\ remote.kind = "not_an_object"
    /\ remote_calls = 1
    /\ used_fallback
    /\ ~raised

\* C2: the adapter's forecast_aqi returns exactly forecast_days predictions on
\* every path, also for a parsed remote answer whose forecast.y is missing, empty
\* or shorter than forecast_days.
C2_AdapterLength == op = "adapter" /\ ~raised => Len(predictions) = forecast_days

\* C3: each of the six models and the service's forecast_aqi return exactly
\* forecast_days predictions, for every history (empty, all aqi absent, any length).
C3_Length == op \in {"model", "service"} /\ ~raised => Len(predictions) = forecast_days

C3_Witness ==
    /\ op = "service"
    /\ method = "ensemble"
    /\ Len(historical_data) >= 3
    /\ usable_points = 0
    /\ forecast_days > 1
    /\ Len(predictions) = forecast_days

\* C4: in every prediction returned by a model, the service or the adapter,
\* predicted_aqi is an integer in [0,500] and so is every confidence bound present.
C4_Range ==
    \A i \in 1..Len(predictions) :
        /\ InRange(predictions[i].predicted_aqi)
        /\ \A k \in DOMAIN predictions[i].confidence : InRange(predictions[i].confidence[k])

C4_Witness ==
    /\ op = "adapter"
    /\ path = "remote"
    /\ \E i \in 1..Len(predictions) :
        /\ remote.y[i] = RInt(600)
        /\ predictions[i].predicted_aqi = 500
        /\ DOMAIN predictions[i].confidence = {"low_80", "high_80", "low_95", "high_95"}
        /\ predictions[i].confidence["high_95"] = 500

\* C5: a model given fewer usable points than its get_min_data_points returns
\* predictions that are all 75 / "Moderate" (no sub-model raising).
C5_FlatBelowMinimum ==
    op = "model" /\ faults = {} /\ usable_points < get_min_data_points(method) =>
        \A i \in 1..Len(predictions) :
            /\ predictions[i].predicted_aqi = 75
            /\ predictions[i].category = "Moderate"

\* C6: on the fallback path with at least 3 historical entries the adapter returns
\* the predictions of the service's forecast_aqi for method "ensemble" on the same
\* history and horizon, confidence intervals included.
C6_FallbackIsEnsemble ==
    op = "adapter" /\ used_fallback /\ Len(historical_data) >= 3 =>
        \E wd \in WeekdayChoices("ensemble", historical_data, {}) :
            predictions =
                forecast_aqi(historical_data, forecast_days, "ensemble", wd, {}, <<>>)[1]

\* the sub-models of the ensemble that answered during the call, in order
survivors == SelectSeq(sub_models, LAMBDA m : ~model_raises(m, historical_data, faults))

\* what sub-model m predicted for day i of the call
sub_prediction(m, i) ==
    sub_model_forecast(m, historical_data, forecast_days, weekday)[i].predicted_aqi

\* the weight of a sub-model by its key, in hundredths
KeyPercent(m) ==
    CASE m = "linear" -> 30
      [] m = "moving_average" -> 25
      [] m = "exponential_smoothing" -> 25
      [] m = "seasonal" -> 20

\* the weights by position, in hundredths
PositionPercent == <<30, 25, 25, 20>>

\* C7: when some sub-models fail and others answer, each answer is weighted with
\* its own sub-model's weight, renormalised over the survivors.
C7_WeightsFollowKeys ==
    op = "model" /\ method = "ensemble" /\ Len(survivors) \in 1..3 =>
        \A i \in 1..Len(predictions) :
            predictions[i].predicted_aqi =
                clamp(round(Rat(
                    SumSeq([j \in 1..Len(survivors) |->
                        KeyPercent(survivors[j]) * sub_prediction(survivors[j], i)]),
                    SumSeq([j \in 1..Len(survivors) |-> KeyPercent(survivors[j])]))))

\* C8: for every non-empty set of answering sub-models the weights applied on a
\* day sum to 1: the day's value is the rounded weighted average of the answers,
\* with the first k weights divided by their sum; two answers a, b of the first two
\* sub-models give round((0.30 a + 0.25 b) / 0.55).
C8_WeightsRenormalised ==
    op = "model" /\ method = "ensemble" /\ Len(survivors) >= 1 =>
        \A i \in 1..Len(predictions) :
            /\ predictions[i].predicted_aqi =
                clamp(round(Rat(
                    SumSeq([j \in 1..Len(survivors) |->
                        PositionPercent[j] * sub_prediction(survivors[j], i)]),
                    SumSeq(FirstK(PositionPercent, Len(survivors))))))
            /\ survivors = <<"linear", "moving_average">> =>
                predictions[i].predicted_aqi =
                    round(Rat(30 * sub_prediction("linear", i)
                              + 25 * sub_prediction("moving_average", i), 55))

\* two answers whose raw weighted sum is not their weighted average
C8_Witness ==
    /\ op = "model"
    /\ method = "ensemble"
    /\ survivors = <<"linear", "moving_average">>
    /\ Len(predictions) > 0
    /\ predictions[1].predicted_aqi =
            round(Rat(30 * sub_prediction("linear", 1)
                      + 25 * sub_prediction("moving_average", 1), 55))
    /\ predictions[1].predicted_aqi #
            round(Rat(30 * sub_prediction("linear", 1)
                      + 25 * sub_prediction("moving_average", 1), 100))

\* C9: given an empty history or fewer than 3 entries, for any method key, the
\* service invokes no model and returns forecast_days predictions, each in [45,85],
\* with metadata Default / default / low.
C9_DefaultForecast ==
    op = "service" /\ Len(historical_data) < 3 =>
        /\ invoked = {}
        /\ Len(predictions) = forecast_days
        /\ \A i \in 1..Len(predictions) : predictions[i].predicted_aqi \in 45..85
        /\ metadata = [model |-> "Default", method |-> "default", confidence |-> "low"]

C9_Witness ==
    /\ op = "service"
    /\ method = "linear"
    /\ Len(historical_data) = 2
    /\ usable_points = 2
    /\ Len(predictions) = forecast_days
    /\ predictions[1].predicted_aqi = 85
    /\ metadata.model = "Default"

\* the bounds of the ensemble policy: margin = max(5, 15%)
EnsembleBounds(aqi) ==
    LET mg == IF 15 * aqi > 500 THEN Rat(15 * aqi, 100) ELSE RInt(5)
    IN  [low_80 |-> clamp(round(RSub(RInt(aqi), mg))),
         high_80 |-> clamp(round(RAdd(RInt(aqi), mg))),
         low_95 |-> clamp(round(RSub(RInt(aqi), RMul(mg, Rat(3, 2))))),
         high_95 |-> clamp(round(RAdd(RInt(aqi), RMul(mg, Rat(3, 2)))))]

\* C10: with at least 3 entries and a method key that is not registered, the
\* service behaves as for "ensemble": the same predictions, the confidence margins
\* of the ensemble policy, and metadata.method = "ensemble".
C10_UnknownKeyIsEnsemble ==
    op = "service" /\ method \notin models /\ Len(historical_data) >= 3 =>
        /\ <<predictions, metadata>> \in
                {forecast_aqi(historical_data, forecast_days, "ensemble", weekday, faults, o) :
                    o \in OffsetChoices(historical_data, forecast_days, "ensemble", faults)}
        /\ ~ensemble_raises(historical_data, faults) =>
            /\ metadata.method = "ensemble"
            /\ \A i \in 1..Len(predictions) :
                predictions[i].confidence = EnsembleBounds(predictions[i].predicted_aqi)

C10_Witness ==
    /\ op = "service"
    /\ method = "prophet"
    /\ faults = {}
    /\ metadata.method = "ensemble"
    /\ \E i \in 1..Len(predictions) :
        /\ predictions[i].predicted_aqi > 34
        /\ predictions[i].confidence = EnsembleBounds(predictions[i].predicted_aqi)

\* the strategy the service selected raised during the call
StrategyRaised ==
    /\ Len(historical_data) >= 3
    /\ forecast_raises(IF method \in models THEN method ELSE "ensemble",
                       historical_data, faults)

\* C11: when the strategy the service invokes raises, forecast_aqi does not raise:
\* it returns forecast_days default predictions and metadata Default / default /
\* low with an error entry holding the exception's message; on every other path
\* the metadata has no error entry.
C11_ErrorPath ==
    op = "service" =>
        /\ ~raised
        /\ StrategyRaised =>
            /\ Len(predictions) = forecast_days
            /\ \A i \in 1..Len(predictions) :
                /\ predictions[i].predicted_aqi \in 45..85
                /\ DOMAIN predictions[i].confidence = {}
            /\ DOMAIN metadata = {"model", "method", "error", "confidence"}
            /\ metadata.model = "Default"
            /\ metadata.method = "default"
            /\ metadata.confidence = "low"
            /\ metadata.error = "str(e)"
        /\ ~StrategyRaised => "error" \notin DOMAIN metadata

C11_Witness ==
    /\ op = "service"
    /\ method = "linear"
    /\ faults = {"linear"}
    /\ usable_points >= 3
    /\ invoked = {"linear"}
    /\ Len(predictions) = forecast_days
    /\ metadata.model = "Default"
    /\ "error" \in DOMAIN metadata

\* C12: on the success path of the service, metadata.data_points is the number of
\* usable points of the history (entries whose aqi is present) and
\* metadata.confidence is "high" exactly when that number exceeds 30, else "medium".
C12_DataPointsAreUsable ==
    op = "service" /\ Len(historical_data) >= 3 /\ ~StrategyRaised =>
        /\ metadata.data_points = usable_points
        /\ metadata.confidence = IF usable_points > 30 THEN "high" ELSE "medium"

\* the strategy key the service ends up using
method_used == IF method \in models THEN method ELSE "ensemble"

\* the service returned a strategy's predictions
ServiceSucceeded == op = "service" /\ Len(historical_data) >= 3 /\ ~StrategyRaised

\* floor and percentage of the margin, per method key
PolicyFloor(m) ==
    CASE m = "ensemble" -> 5
      [] m = "linear" -> 8
      [] m = "moving_average" -> 6
      [] OTHER -> 10

PolicyPercent(m) ==
    CASE m = "ensemble" -> 15
      [] m = "linear" -> 20
      [] m = "moving_average" -> 18
      [] OTHER -> 25

\* the four bounds for a predicted value under the policy of key m
PolicyBounds(aqi, m) ==
    LET mg == IF aqi * PolicyPercent(m) > 100 * PolicyFloor(m)
              THEN Rat(aqi * PolicyPercent(m), 100) ELSE RInt(PolicyFloor(m))
        wide == RMul(mg, Rat(3, 2))
        bound(x) == IF round(x) < 0 THEN 0 ELSE IF round(x) > 500 THEN 500 ELSE round(x)
    IN  [low_80 |-> bound(RSub(RInt(aqi), mg)),
         high_80 |-> bound(RAdd(RInt(aqi), mg)),
         low_95 |-> bound(RSub(RInt(aqi), wide)),
         high_95 |-> bound(RAdd(RInt(aqi), wide))]

\* C13: on the success path of the service every prediction carries the bounds
\* of margin = max(floor, predicted_aqi * pct), with (floor, pct) = (5, 15%) for
\* ensemble, (8, 20%) for linear, (6, 18%) for moving_average and (10, 25%) for any
\* other key: low_80 / high_80 = clamp(round(predicted -/+ margin)) and
\* low_95 / high_95 = clamp(round(predicted -/+ 1.5 margin)).
C13_ConfidencePolicy ==
    ServiceSucceeded =>
        \A i \in 1..Len(predictions) :
            predictions[i].confidence = PolicyBounds(predictions[i].predicted_aqi, method_used)

\* a moving-average prediction whose margin is the 18% and not the floor
C13_Witness ==
    /\ ServiceSucceeded
    /\ method = "moving_average"
    /\ \E i \in 1..Len(predictions) :
        LET aqi == predictions[i].predicted_aqi
        IN  /\ 18 * aqi > 600
            /\ predictions[i].confidence.low_80 = round(Rat(82 * aqi, 100))
            /\ predictions[i].confidence.low_80 # round(Rat(75 * aqi, 100))
            /\ predictions[i].confidence.high_95 = clamp(round(Rat(127 * aqi, 100)))

\* C14: for every prediction of the service's success path,
\* low_95 <= low_80 <= predicted_aqi <= high_80 <= high_95, also when a bound is
\* clamped at 0 or 500.
C14_BoundsOrdered ==
    ServiceSucceeded =>
        \A i \in 1..Len(predictions) :
            LET c == predictions[i].confidence
            IN  /\ c.low_95 <= c.low_80
                /\ c.low_80 <= predictions[i].predicted_aqi
                /\ predictions[i].predicted_aqi <= c.high_80
                /\ c.high_80 <= c.high_95

\* a prediction whose upper bounds were both clamped at 500
C14_Witness ==
    /\ ServiceSucceeded
    /\ \E i \in 1..Len(predictions) :
        /\ predictions[i].predicted_aqi \in 440..499
        /\ predictions[i].confidence.high_80 = 500
        /\ predictions[i].confidence.high_95 = 500
        /\ predictions[i].confidence.low_95 < predictions[i].confidence.low_80

\* C15: in every prediction returned by a model, the service or the adapter, on
\* every path (the hard-coded flat 75 defaults included), category is
\* get_aqi_category(predicted_aqi) of the same prediction.
C15_CategoryConsistent ==
    \A i \in 1..Len(predictions) :
        predictions[i].category = get_aqi_category(predictions[i].predicted_aqi)

\* the adapter's fallback on a history without any aqi: the hard-coded default
C15_Witness ==
    /\ op = "adapter"
    /\ path = "simple"
    /\ Len(historical_data) >= 3
    /\ usable_points = 0
    /\ Len(predictions) = forecast_days
    /\ \A i \in 1..Len(predictions) :
        /\ predictions[i].predicted_aqi = 75
        /\ predictions[i].category = "Moderate"

\* the six pollutant keys
RecognisedPollutants == {"pm25", "pm10", "no2", "o3", "so2", "co"}

\* the pollutant of the call is one of the six keys, whatever its case
Recognised == lower(pollutant) \in RecognisedPollutants

\* the rows of the call's pollutant
RowsOfCall == AQI_BREAKPOINTS[lower(pollutant)]

\* C16: calculate_aqi returns None exactly when the concentration is absent or
\* negative or the pollutant, compared without case, is not one of pm25, pm10, no2,
\* o3, so2, co; for a recognised pollutant and a concentration above the last
\* row's upper bound it returns 500.
C16_InvalidAndSaturation ==
    op = "calculate_aqi" =>
        /\ (aqi_out = <<>>) <=>
            (\/ concentration = <<>>
             \/ concentration[1].n < 0
             \/ ~Recognised)
        /\ (/\ Recognised
            /\ concentration # <<>>
            /\ RLess(Rat(RowsOfCall[Len(RowsOfCall)][2], 10), concentration[1]))
            => aqi_out = <<500>>

\* a key in upper case with a concentration just above the last row
C16_Witness ==
    /\ op = "calculate_aqi"
    /\ pollutant = "PM25"
    /\ concentration = <<Rat(5005, 10)>>
    /\ aqi_out = <<500>>

\* the concentration n/d of the call lies in [c_low, c_high] of the row
InsideRow(row) ==
    /\ row[1] * concentration[1].d <= 10 * concentration[1].n
    /\ 10 * concentration[1].n <= row[2] * concentration[1].d

\* round(aqi_low + (aqi_high - aqi_low) * (c - c_low) / (c_high - c_low)) for the
\* concentration of the call, over one denominator
RowValue(row) ==
    LET n == concentration[1].n
        d == concentration[1].d
    IN  round(Rat(row[3] * d * (row[2] - row[1]) + (row[4] - row[3]) * (10 * n - row[1] * d),
                  d * (row[2] - row[1])))

\* the values stated for pm25 at the ends of its first rows and of its last
Pm25Ends ==
    {<<0, 0>>, <<120, 50>>, <<121, 51>>, <<354, 100>>, <<355, 101>>, <<5004, 500>>}

AssertedValues ==
    {<<"pm25", 10, 42>>, <<"pm25", 25, 75>>, <<"pm25", 45, 125>>, <<"pm25", 100, 175>>,
     <<"pm25", 200, 250>>, <<"pm25", 300, 400>>, <<"pm10", 100, 75>>, <<"no2", 75, 75>>,
     <<"o3", 60, 75>>}

\* C18: inside a band the calculator returns the values the tests assert: pm25
\* 10.0 -> 42, 25.0 -> 75, 45.0 -> 125, 100.0 -> 175, 200.0 -> 250, 300.0 -> 400;
\* pm10 100.0 -> 75; no2 75.0 -> 75; o3 60.0 -> 75.
C18_AssertedValues ==
    op = "calculate_aqi" =>
        \A t \in AssertedValues :
            (pollutant = t[1] /\ concentration = <<RInt(t[2])>>) => aqi_out = <<t[3]>>

\* the labels in their order, and the last value of each band but the last
CategoryLabels ==
    <<"Good", "Moderate", "Unhealthy for Sensitive Groups", "Unhealthy", "Very Unhealthy",
      "Hazardous">>

CategorySteps == <<50, 100, 150, 200, 300>>

CategoryRank(label) == CHOOSE k \in 1..Len(CategoryLabels) : CategoryLabels[k] = label

\* C19: get_aqi_category is a non-decreasing step function over Good < Moderate <
\* Unhealthy for Sensitive Groups < Unhealthy < Very Unhealthy < Hazardous, stepping
\* exactly at 50/51, 100/101, 150/151, 200/201 and 300/301 (50 is Good, 51 is
\* Moderate, 500 is Hazardous); its only argument is the aqi.
C19_CategorySteps ==
    op = "get_aqi_category" =>
        /\ category_out =
            CategoryLabels[1 + Cardinality({k \in 1..Len(CategorySteps) :
                                              CategorySteps[k] < aqi_in})]
        /\ \A a \in CategoryArgs :
            a <= aqi_in =>
                CategoryRank(get_aqi_category(a)) <= CategoryRank(category_out)
        /\ aqi_in = 50 => category_out = "Good"
        /\ aqi_in = 51 => category_out = "Moderate"
        /\ aqi_in = 500 => category_out = "Hazardous"

\* the first value above a step
C19_Witness ==
    /\ op = "get_aqi_category"
    /\ aqi_in = 301
    /\ category_out = "Hazardous"
    /\ get_aqi_category(aqi_in - 1) = "Very Unhealthy"

\* the pollutants of the call's measurements for which calculate_aqi is valid
ValidPollutants ==
    {k \in DOMAIN measurements : calculate_aqi(measurements[k], k) # <<>>}

\* C20: calculate_daily_aqi returns the maximum of the AQIs of exactly the
\* pollutants for which calculate_aqi is valid, the category of that maximum and a
\* breakdown holding exactly those pollutants; with no valid pollutant it returns
\* (None, "Unknown", empty breakdown).
C20_DailyMaximum ==
    op = "calculate_daily_aqi" =>
        /\ DOMAIN daily.breakdown = ValidPollutants
        /\ \A k \in ValidPollutants :
            daily.breakdown[k] = calculate_aqi(measurements[k], k)[1]
        /\ ValidPollutants = {} =>
            /\ daily.daily_aqi = <<>>
            /\ daily.category = "Unknown"
        /\ ValidPollutants # {} =>
            /\ \E k \in ValidPollutants : daily.daily_aqi = <<daily.breakdown[k]>>
            /\ \A k \in ValidPollutants : daily.breakdown[k] <= daily.daily_aqi[1]
            /\ daily.category = get_aqi_category(daily.daily_aqi[1])

\* four measurements, two of them valid, the larger one deciding
C20_Witness ==
    /\ op = "calculate_daily_aqi"
    /\ DOMAIN measurements = DailyKeys
    /\ measurements["pm25"] = <<>>
    /\ measurements["invalid"] = <<RInt(25)>>
    /\ DOMAIN daily.breakdown = {"Pm10", "o3"}
    /\ daily.breakdown["o3"] < daily.breakdown["Pm10"]
    /\ daily.daily_aqi = <<daily.breakdown["Pm10"]>>
    /\ daily.category = "Hazardous"

\* the parsed content of the remote answer carries no structured forecast: JSON that
\* is not an object, an object without "forecast", a forecast without "y"
NoStructuredForecast ==
    /\ remote_calls = 1
    /\ remote.kind \in {"not_an_object", "no_forecast", "forecast_no_y"}

\* C21: when the parsed remote content carries no structured forecast (JSON that is
\* not an object, no forecast object, no forecast.y array) the adapter takes the
\* fallback path and returns used_fallback = true; it never returns
\* used_fallback = false without remote forecast values.
C21_NoForecastFallsBack ==
    op = "adapter" =>
        /\ NoStructuredForecast => used_fallback /\ path # "remote"
        /\ ~used_fallback /\ ~raised => Len(remote.y) > 0

\* C22: _fallback_forecast called with an empty history returns forecast_days
\* predictions, all with predicted_aqi = 75 and category "Moderate".
C22_EmptyHistoryFlat ==
    op = "adapter" /\ Len(historical_data) = 0 =>
        /\ used_fallback
        /\ Len(predictions) = forecast_days
        /\ \A i \in 1..Len(predictions) :
            /\ predictions[i].predicted_aqi = 75
            /\ predictions[i].category = "Moderate"

\* the fallback reached with a credential and an empty history, two days asked
C22_Witness ==
    /\ op = "adapter"
    /\ api_key
    /\ Len(historical_data) = 0
    /\ remote_calls = 0
    /\ used_fallback
    /\ forecast_days = 2
    /\ Len(predictions) = 2
    /\ predictions[2].predicted_aqi = 75
    /\ predictions[2].category = "Moderate"

\* the usable AQI values of the call's history
usable_values == prepare_data(historical_data)

\* the usable values lie exactly on the line through the first two of them
OnLine ==
    /\ usable_points >= 3
    /\ \A k \in 1..usable_points :
        usable_values[k] = usable_values[1] + (usable_values[2] - usable_values[1]) * (k - 1)

\* the line's value at index t
LineAt(t) == usable_values[1] + (usable_values[2] - usable_values[1]) * t

\* C23: for n >= 3 usable points lying exactly on a line a + b*t (t = 0..n-1) the
\* linear model predicts clamp(round(a + b*(n+i)), 0, 500) for day index i; for 30
\* points rising by 2 per day from 50 and horizon 7 the predictions are
\* non-decreasing and each within 1 of 50 + 2*(30+i).
C23_LinearOnLine ==
    op = "model" /\ method = "linear" /\ ~raised /\ OnLine =>
        /\ Len(predictions) = forecast_days
        /\ \A i \in 1..Len(predictions) :
            predictions[i].predicted_aqi =
                (IF LineAt(usable_points + i - 1) < 0 THEN 0
                 ELSE IF LineAt(usable_points + i - 1) > 500 THEN 500
                 ELSE LineAt(usable_points + i - 1))
        /\ historical_data = Line(50, 2, 30) /\ forecast_days = 7 =>
            /\ \A i \in 1..6 :
                predictions[i].predicted_aqi <= predictions[i + 1].predicted_aqi
            /\ \A i \in 1..7 :
                Abs(predictions[i].predicted_aqi - (50 + 2 * (30 + i - 1))) <= 1

\* the end-to-end scenario: 30 points from 50 rising by 2, a week ahead
C23_Witness ==
    /\ op = "model"
    /\ method = "linear"
    /\ historical_data = Line(50, 2, 30)
    /\ forecast_days = 7
    /\ Len(predictions) = 7
    /\ predictions[1].predicted_aqi = 110
    /\ predictions[7].predicted_aqi = 122

\* C24: the adapter issues no remote call when no credential is configured or when
\* fewer than 7 usable AQI points are supplied, and goes straight to the fallback;
\* a remote call is issued only when both checks pass, and at most one per
\* forecast_aqi call (no retry after 401, 429, an error or a timeout).
C24_RemoteCallGate ==
    op = "adapter" =>
        /\ remote_calls \in {0, 1}
        /\ remote_calls = 1 <=> api_key /\ usable_points >= 7
        /\ remote_calls = 0 => used_fallback /\ path # "remote" /\ remote.kind = "not_called"

\* a credential and nine entries of which six carry an aqi: no call
C24_Witness ==
    /\ op = "adapter"
    /\ api_key
    /\ Len(historical_data) >= 7
    /\ usable_points = 6
    /\ remote_calls = 0
    /\ used_fallback

\* both arrays of a pair cover the entry of day index i (from 0)
Covers(low, high, i) == i < Len(low) /\ i < Len(high)

\* C25: on remote success, entry i (i < forecast_days) has
\* predicted_aqi = clamp(round(y[i]), 0, 500); it carries low_80/high_80 exactly when
\* both y_80 and y_80_hi cover index i, and low_95/high_95 exactly when both y_95
\* and y_95_hi cover index i; the confidence is empty (omitted) when neither pair
\* covers index i.
C25_RemoteEntries ==
    op = "adapter" /\ path = "remote" =>
        /\ Len(predictions) <= forecast_days
        /\ \A i \in 1..Len(predictions) :
            LET keys == DOMAIN predictions[i].confidence IN
            /\ predictions[i].predicted_aqi = clamp(round(remote.y[i]))
            /\ keys \subseteq {"low_80", "high_80", "low_95", "high_95"}
            /\ "low_80" \in keys <=> Covers(remote.y_80, remote.y_80_hi, i - 1)
            /\ "high_80" \in keys <=> Covers(remote.y_80, remote.y_80_hi, i - 1)
            /\ "low_95" \in keys <=> Covers(remote.y_95, remote.y_95_hi, i - 1)
            /\ "high_95" \in keys <=> Covers(remote.y_95, remote.y_95_hi, i - 1)
            /\ ~Covers(remote.y_80, remote.y_80_hi, i - 1)
                    /\ ~Covers(remote.y_95, remote.y_95_hi, i - 1) => keys = {}

\* an answer with the 80% pair alone at the first index and, at the second, one
\* array of each pair only
C25_Witness ==
    /\ op = "adapter"
    /\ path = "remote"
    /\ Len(predictions) = 2
    /\ Len(remote.y_80) = 1
    /\ Len(remote.y_80_hi) = 2
    /\ Len(remote.y_95) = 2
    /\ Len(remote.y_95_hi) = 1
    /\ DOMAIN predictions[1].confidence = {"low_80", "high_80", "low_95", "high_95"}
    /\ DOMAIN predictions[2].confidence = {}
    /\ predictions[2].predicted_aqi = clamp(round(remote.y[2]))

\* C26: with fewer than 14 usable AQI points the seasonal model returns, for every
\* history and horizon, what the moving-average model (window 7) returns on the
\* same input; with 14 or more points it never calls the moving average.
C26_SeasonalDelegates ==
    op = "model" /\ method = "seasonal" /\ ~raised =>
        /\ usable_points < 14 =>
            /\ predictions = moving_average_forecast(historical_data, forecast_days)
            /\ "moving_average" \in invoked
        /\ usable_points >= 14 => "moving_average" \notin invoked

\* thirteen points with a weekly pattern, handed to the moving average
C26_Witness ==
    /\ op = "model"
    /\ method = "seasonal"
    /\ ~raised
    /\ historical_data = History("weekly", 13)
    /\ forecast_days = 2
    /\ "moving_average" \in invoked
    /\ Len(predictions) = 2
    /\ predictions[1].predicted_aqi # 75

\* C27: send_message re-sends at most once after a rate-limit (429) response:
\* whatever the remote answers, 429 on every attempt included, one send_message
\* call issues at most two requests and then returns true or false.
C27_AtMostOneResend ==
    op = "send_message" =>
        /\ requests <= 2
        /\ requests = 2 => send_result # <<>>

\* the subscriber's row lies in the box of 50 km around the checked location: at
\* most 50/111 degrees of latitude and 50 / (111 * |lat| / 90) degrees of longitude
\* away (written without the division)
InBox(s) ==
    /\ ~RLess(Rat(50, 111), RAbs(RSub(s.latitude, location[1])))
    /\ ~RLess(RInt(50 * 90),
              RMul(RAbs(RSub(s.longitude, location[2])),
                   RMul(RInt(111), RAbs(location[1]))))

\* every prediction of the call carries a date and a predicted_aqi
PredictionsComplete ==
    \A i \in 1..Len(alert_predictions) :
        alert_predictions[i].date # <<>> /\ alert_predictions[i].predicted_aqi # <<>>

\* C28: check_and_send_alerts (with a bot token, for predictions that carry a date)
\* attempts an alert for a (prediction, subscriber) pair exactly when the subscriber
\* is active, inside the location's bounding box and predicted_aqi is strictly
\* greater than the subscriber's threshold; every attempt writes one AlertLog row
\* and one details entry, alerts_sent counts the successful sends only, and
\* subscribers_notified <= alerts_sent <= number of details entries.
C28_AlertAttempts ==
    op = "check_and_send_alerts" /\ bot_token /\ PredictionsComplete =>
        /\ ~raised
        /\ stats # <<>>
        /\ \A i \in 1..Len(alert_predictions), r \in 1..Len(subscribers) :
            (\E j \in 1..Len(stats[1].details) :
                /\ stats[1].details[j].chat_id = subscribers[r].chat_id
                /\ stats[1].details[j].date = alert_predictions[i].date[1]
                /\ stats[1].details[j].aqi = alert_predictions[i].predicted_aqi[1])
            <=> /\ subscribers[r].is_active
                /\ InBox(subscribers[r])
                /\ alert_predictions[i].predicted_aqi[1] > subscribers[r].threshold
        /\ Len(alert_log) = Len(stats[1].details)
        /\ stats[1].alerts_sent =
                Cardinality({j \in 1..Len(stats[1].details) : stats[1].details[j].sent})
        /\ stats[1].subscribers_notified <= stats[1].alerts_sent
        /\ stats[1].alerts_sent <= Len(stats[1].details)

\* the rows of the table with the given chat_id
RowsOf(rows, chat_id) == {i \in 1..Len(rows) : rows[i].chat_id = chat_id}

\* at most one row per chat_id, active exactly when kind(chat_id) is a subscribe or
\* a location message
OneRowActiveIff(rows, kind(_)) ==
    \A c \in ChatIds :
        /\ Cardinality(RowsOf(rows, c)) <= 1
        /\ \A i \in RowsOf(rows, c) :
            rows[i].is_active <=> kind(c) \in {"subscribe", "location"}

\* the step keeps every row and its chat_id
RowsKept ==
    /\ Len(subscribers') >= Len(subscribers)
    /\ \A i \in 1..Len(subscribers) : subscribers'[i].chat_id = subscribers[i].chat_id

\* an unsubscribe answered 404 found no row and changed nothing; any other only
\* cleared is_active of rows
UnsubscribeStep ==
    op' = "unsubscribe" =>
        /\ Len(subscribers') = Len(subscribers)
        /\ \A i \in 1..Len(subscribers) :
            \/ subscribers'[i] = subscribers[i]
            \/ subscribers'[i] = [subscribers[i] EXCEPT !.is_active = FALSE]
        /\ \A c \in ChatIds :
            last_request'[c] # last_request[c] /\ last_request'[c].status = 404 =>
                /\ RowsOf(subscribers, c) = {}
                /\ subscribers' = subscribers
        /\ \A c \in ChatIds :
            last_request'[c].kind = "unsubscribe" /\ RowsOf(subscribers', c) = {} =>
                last_request'[c].status = 404

C30_Monotonic ==
    op = "calculate_aqi" /\ Recognised /\ aqi_out # <<>> =>
        \A c2 \in Concentrations(pollutant) :
            c2 # <<>> /\ ~RLess(c2[1], concentration[1]) =>
                aqi_out[1] <= calculate_aqi(c2, pollutant)[1]

=============================================================================
